---- MODULE Spec2Model ----
(***************************************************************************)
(* A model of the entropy-coding library: the fast division by an          *)
(* invariant divisor, the fixed-point multiplication by a fraction, the    *)
(* binary arithmetic coder and the binary range ANS coder.                 *)
(*                                                                         *)
(* The C++ code computes on uint32_t and uint64_t words.  TLC's integers   *)
(* are 32-bit signed, so a machine word is modelled as the little-endian   *)
(* sequence of its bytes (4 bytes for uint32_t, 8 for uint64_t) and the    *)
(* word operations are carried out byte by byte, wrapping at the width of  *)
(* the C++ type.                                                           *)
(***************************************************************************)
EXTENDS Integers, Sequences, FiniteSets, TLC

\* ------------------------------------------------------------------------
\* Machine words as little-endian byte sequences
\* ------------------------------------------------------------------------

Limb(x, i) == IF i <= Len(x) THEN x[i] ELSE 0

RECURSIVE Pow2(_)
Pow2(e) == IF e = 0 THEN 1 ELSE 2 * Pow2(e - 1)

\* The k-byte word holding the natural number n (n below 2^31).
RECURSIVE Word(_, _)
Word(n, k) == IF k = 0 THEN <<>> ELSE <<n % 256>> \o Word(n \div 256, k - 1)

\* The natural number a word holds; defined for words below 2^31.
RECURSIVE WordValue(_)
WordValue(x) == IF x = <<>> THEN 0 ELSE x[1] + 256 * WordValue(Tail(x))

\* Whether the word holds a value below 2^31 (and so has a WordValue).
FitsInt(x) == \A i \in 1..Len(x) : (i > 4 => x[i] = 0) /\ (i = 4 => x[i] < 128)

\* The word 2^e, k bytes wide.
WordPow2(e, k) == [i \in 1..k |-> IF i = (e \div 8) + 1 THEN Pow2(e % 8) ELSE 0]

\* Conversion between widths: zero extension or truncation to k bytes.
Resize(x, k) == [i \in 1..k |-> Limb(x, i)]

RECURSIVE AddFrom(_, _, _, _, _)
AddFrom(x, y, i, k, carry) ==
    IF i > k THEN <<>>
    ELSE LET s == Limb(x, i) + Limb(y, i) + carry
         IN  <<s % 256>> \o AddFrom(x, y, i + 1, k, s \div 256)

\* x + y modulo 2^(8k)
WrapAdd(x, y, k) == AddFrom(x, y, 1, k, 0)

RECURSIVE SubFrom(_, _, _, _, _)
SubFrom(x, y, i, k, borrow) ==
    IF i > k THEN <<>>
    ELSE LET d == Limb(x, i) - Limb(y, i) - borrow
         IN  <<(d + 256) % 256>> \o SubFrom(x, y, i + 1, k, IF d < 0 THEN 1 ELSE 0)

\* x - y modulo 2^(8k)
WrapSub(x, y, k) == SubFrom(x, y, 1, k, 0)

RECURSIVE ColumnSum(_, _, _, _)
ColumnSum(x, y, j, i) ==
    IF i > j \/ i > Len(x) THEN 0
    ELSE Limb(x, i) * Limb(y, j - i + 1) + ColumnSum(x, y, j, i + 1)

RECURSIVE MulFrom(_, _, _, _, _)
MulFrom(x, y, j, k, carry) ==
    IF j > k THEN <<>>
    ELSE LET c == carry + ColumnSum(x, y, j, 1)
         IN  <<c % 256>> \o MulFrom(x, y, j + 1, k, c \div 256)

\* x * y modulo 2^(8k)
WrapMul(x, y, k) == MulFrom(x, y, 1, k, 0)

\* x >> s, as a k-byte word
ShiftRight(x, s, k) ==
    LET q == s \div 8
        b == s % 8
    IN  [i \in 1..k |->
            (Limb(x, i + q) \div Pow2(b) + Limb(x, i + q + 1) * Pow2(8 - b)) % 256]

RECURSIVE LessFrom(_, _, _)
LessFrom(x, y, i) ==
    IF i = 0 THEN FALSE
    ELSE IF Limb(x, i) # Limb(y, i) THEN Limb(x, i) < Limb(y, i)
    ELSE LessFrom(x, y, i - 1)

\* x < y
Less(x, y) == LessFrom(x, y, IF Len(x) > Len(y) THEN Len(x) ELSE Len(y))

\* Long division of a word by a divisor d with 0 < d < 2^31, one bit at a
\* time; the running remainder r stays below d, and 2r + bit >= d is tested
\* as r >= d - r - bit so that no intermediate value reaches 2^31.
RECURSIVE DivBits(_, _, _, _, _)
DivBits(byte, d, bit, r, q) ==
    IF bit < 0 THEN <<q, r>>
    ELSE LET b == (byte \div Pow2(bit)) % 2
             t == d - r - b
         IN  IF r >= t THEN DivBits(byte, d, bit - 1, r - t, 2 * q + 1)
             ELSE DivBits(byte, d, bit - 1, r + r + b, 2 * q)

RECURSIVE DivFrom(_, _, _, _)
DivFrom(x, d, i, r) ==
    IF i = 0 THEN <<>>
    ELSE LET qr == DivBits(x[i], d, 7, r, 0)
         IN  DivFrom(x, d, i - 1, qr[2]) \o <<qr[1]>>

\* floor(x / d), as a word as wide as x
WordDiv(x, d) == DivFrom(x, d, Len(x), 0)


\* ------------------------------------------------------------------------
\* State
\* ------------------------------------------------------------------------

VARIABLES
    divisor,        \* FastUint31Division::divisor (uint32_t)
    multiplier,     \* FastUint31Division::multiplier (uint64_t)
    shiftAmount,    \* FastUint31Division::shiftAmount (uint8_t)
    divCall,        \* the last call made on the division object and its result
    inputBitArray,  \* BinaryArithmeticCoder::Encode: the message (BitArray)
    outputBitStream,\* BinaryArithmeticCoder::Encode: the output (OutputBitStream)
    enc,            \* BinaryArithmeticCoder::Encode: its locals and position
    encodedBitArray,\* BinaryArithmeticCoder::Decode: the encoded input (BitArray)
    outputBitArray, \* BinaryArithmeticCoder::Decode: the pre-sized output (BitArray)
    dec,            \* BinaryArithmeticCoder::Decode: its locals and position
    coder,          \* BinaryRangeANSCoder: the fields set by the constructor
    encoderStateTransitionTable, \* BinaryRangeANSCoder: std::vector<uint64_t>
    decoderStateTransitionTable, \* BinaryRangeANSCoder: std::vector<StateAndSymbol>
    tableCall,      \* the last table lookup called on the coder and its result
    ansInputBitArray,  \* BinaryRangeANSCoder::Encode: the message (BitArray)
    outputBytes,    \* BinaryRangeANSCoder::Encode: the flushed bytes
    ansEnc,         \* BinaryRangeANSCoder::Encode: its locals and position
    encodedBytes,   \* BinaryRangeANSCoder::Decode: the encoded bytes
    ansOutputBitArray, \* BinaryRangeANSCoder::Decode: the pre-sized output (BitArray)
    ansDec,         \* BinaryRangeANSCoder::Decode: its locals and position
    fracMul,        \* FastUint32MultiplicationByFraction: the object
    mulCall,        \* the last call of Multiply on it and its result
    bitArray,       \* BitArray: the object under direct calls (bytes, bitLength)
    bitArrayInitial,\* the buffer the BitArray was constructed over
    bitWrites,      \* the calls of WriteBitAt made on it, as <<position, bit>>
    bitCall,        \* the last reading call made on it and its result
    stream,         \* OutputBitStream: the object under direct calls
    streamWrites,   \* the bits given to its WriteBit, in order
    streamCall,     \* the last call made on it
    div32,          \* FastUint32Division: divisor, multiplier, shiftAmount
    div32Call       \* the last call made on the FastUint32Division and its result

divVars == <<divisor, multiplier, shiftAmount, divCall>>

bacVars == <<inputBitArray, outputBitStream, enc, encodedBitArray, outputBitArray, dec>>

ansVars == <<coder, encoderStateTransitionTable, decoderStateTransitionTable, tableCall,
            ansInputBitArray, outputBytes, ansEnc, encodedBytes, ansOutputBitArray, ansDec>>

fracVars == <<fracMul, mulCall>>

bitVars == <<bitArray, bitArrayInitial, bitWrites, bitCall>>

streamVars == <<stream, streamWrites, streamCall>>

div32Vars == <<div32, div32Call>>

vars == <<divVars, bacVars, ansVars, fracVars, bitVars, streamVars, div32Vars>>

\* What the calls on one component leave alone
notDivVars == <<bacVars, ansVars, fracVars, bitVars, streamVars, div32Vars>>
notBacVars == <<divVars, ansVars, fracVars, bitVars, streamVars, div32Vars>>
notAnsVars == <<divVars, bacVars, fracVars, bitVars, streamVars, div32Vars>>
notFracVars == <<divVars, bacVars, ansVars, bitVars, streamVars, div32Vars>>
notBitVars == <<divVars, bacVars, ansVars, fracVars, streamVars, div32Vars>>
notStreamVars == <<divVars, bacVars, ansVars, fracVars, bitVars, div32Vars>>
notDiv32Vars == <<divVars, bacVars, ansVars, fracVars, bitVars, streamVars>>

\* ------------------------------------------------------------------------
\* FastUint31Division
\* ------------------------------------------------------------------------

\* std::bit_width(v): the number of bits needed to represent v
RECURSIVE BitWidth(_)
BitWidth(v) == IF v = 0 THEN 0 ELSE 1 + BitWidth(v \div 2)

\* A wrong exponent: the bit width of the value itself.
ExponentFromBitWidthOfValue(value) == IF value <= 1 THEN 0 ELSE BitWidth(value)

GetExponentOfClosestPowerOfTwoGreaterOrEqualTo(value) ==
    IF value <= 1 THEN 0 ELSE BitWidth(value - 1)

\* A wrong magic number: the quotient 2^shift / d rounded down.
MagicMultiplierRoundedDown(d, shift) == WordDiv(WordPow2(shift, 8), d)

\* multiplier = ((1ULL << shiftAmount) + (divisor - 1)) / divisor
MagicMultiplier(d, shift) ==
    WordDiv(WrapAdd(WordPow2(shift, 8), Word(d - 1, 8), 8), d)

\* The inputs of the division model: small values, values around the powers
\* of two and the ends of the 31-bit range, the documented example, and
\* two values outside the 31-bit range.
MaxSmallDivisor == 12
MaxSmallNumerator == 9

SpecialValues ==
    { 255, 256, 257, 641, 65535, 65536, 65537, 1000000000, 1073741823,
      1073741824, 1073741825, 2147483646, 2147483647 }

OutOfRangeWords == { WordPow2(31, 4), <<255, 255, 255, 255>> }

Divisors ==
    { Word(v, 4) : v \in (0..MaxSmallDivisor) \cup SpecialValues } \cup OutOfRangeWords

\* Numerators next to the multiples of the divisor d, where a wrong magic
\* number first goes wrong.
NearMultiples(d) ==
    IF d = 0 THEN {}
    ELSE LET top == (2147483647 \div d) * d
         IN  { v \in { top - 1, top, top - d, top - d - 1, d - 1, d,
                        IF d < 2147483647 THEN d + 1 ELSE d } : v >= 0 }

Numerators(d) ==
    { Word(v, 4) : v \in (0..MaxSmallNumerator) \cup SpecialValues \cup NearMultiples(d) }
        \cup OutOfRangeWords

\* The last call on the object; argument is the divisor that was given to
\* the constructor
NoCall == [op |-> "none", numerator |-> Word(0, 4), quotient |-> Word(0, 4),
           remainder |-> Word(0, 4), argument |-> Word(0, 4)]

\* A wrong magic value for the divisor 0.
ZeroDivisorMultiplierOfOne == Word(1, 8)

\* if (divisor == 0) { multiplier = 0; ... }
ZeroDivisorMultiplier == Word(0, 8)

\* FastUint31Division(): the default-constructed object
DivInit ==
    /\ divisor = Word(0, 4)
    /\ multiplier = Word(0, 8)
    /\ shiftAmount = 0
    /\ divCall = NoCall

\* FastUint31Division(uint32_t divisor), divisor 0
ConstructZero(d) ==
    /\ divCall.op = "none"
    /\ d = Word(0, 4)
    /\ divisor' = d
    /\ multiplier' = ZeroDivisorMultiplier
    /\ shiftAmount' = 0
    /\ divCall' = [NoCall EXCEPT !.op = "constructed", !.argument = d]
    /\ UNCHANGED notDivVars

\* FastUint31Division(uint32_t divisor), divisor >= 2^31: throws
ConstructThrows(d) ==
    /\ divCall.op = "none"
    /\ d # Word(0, 4)
    /\ ~Less(d, WordPow2(31, 4))
    /\ divCall' = [NoCall EXCEPT !.op = "threw", !.argument = d]
    /\ UNCHANGED <<divisor, multiplier, shiftAmount>>
    /\ UNCHANGED notDivVars

\* FastUint31Division(uint32_t divisor), 1 <= divisor < 2^31
Construct(d) ==
    /\ divCall.op = "none"
    /\ d # Word(0, 4)
    /\ Less(d, WordPow2(31, 4))
    /\ LET divisorBitWidth == GetExponentOfClosestPowerOfTwoGreaterOrEqualTo(WordValue(d))
       IN  /\ shiftAmount' = 32 + divisorBitWidth
           /\ multiplier' = MagicMultiplier(WordValue(d), 32 + divisorBitWidth)
    /\ divisor' = d
    /\ divCall' = [NoCall EXCEPT !.op = "constructed", !.argument = d]
    /\ UNCHANGED notDivVars

\* (numerator * multiplier) >> shiftAmount, returned as uint32_t
Quotient(numerator, mult, shift) ==
    ShiftRight(WrapMul(Resize(numerator, 8), mult, 8), shift, 4)

\* uint32_t Divide(uint32_t numerator)
Divide(numerator) ==
    /\ divCall.op \in {"none", "constructed"}
    /\ divCall' = [op |-> "Divide", numerator |-> numerator,
                   quotient |-> Quotient(numerator, multiplier, shiftAmount),
                   remainder |-> Word(0, 4), argument |-> divCall.argument]
    /\ UNCHANGED <<divisor, multiplier, shiftAmount>>
    /\ UNCHANGED notDivVars

\* QuotientAndRemainderUint32 DivideAndGetRemainder(uint32_t numerator)
DivideAndGetRemainder(numerator) ==
    /\ divCall.op \in {"none", "constructed"}
    /\ LET quotient == Quotient(numerator, multiplier, shiftAmount)
           remainder == WrapSub(numerator, WrapMul(quotient, divisor, 4), 4)
       IN  divCall' = [op |-> "DivideAndGetRemainder", numerator |-> numerator,
                       quotient |-> quotient, remainder |-> remainder,
                       argument |-> divCall.argument]
    /\ UNCHANGED <<divisor, multiplier, shiftAmount>>
    /\ UNCHANGED notDivVars

NextDivision ==
    \/ \E d \in Divisors : ConstructZero(d)
    \/ \E d \in Divisors : ConstructThrows(d)
    \/ \E d \in Divisors : Construct(d)
    \/ \E n \in Numerators(IF FitsInt(divisor) THEN WordValue(divisor) ELSE 0) : Divide(n)
    \/ \E n \in Numerators(IF FitsInt(divisor) THEN WordValue(divisor) ELSE 0) :
            DivideAndGetRemainder(n)

\* ------------------------------------------------------------------------
\* FastUint32Division
\* ------------------------------------------------------------------------

\* std::bit_width of a word
RECURSIVE WordBitWidthFrom(_, _)
WordBitWidthFrom(x, i) ==
    IF i = 0 THEN 0
    ELSE IF x[i] # 0 THEN (8 * (i - 1)) + BitWidth(x[i])
    ELSE WordBitWidthFrom(x, i - 1)

\* GetExponentOfClosestPowerOfTwoGreaterOrEqualTo(uint64_t value), on a word
ExponentOfClosestPowerOfTwoGreaterOrEqualTo(value) ==
    IF Less(value, Word(2, 8)) THEN 0
    ELSE LET val == WrapSub(Resize(value, 8), Word(1, 8), 8)
         IN  WordBitWidthFrom(val, 8)

\* Bit i of a word
WordBit(x, i) == (Limb(x, (i \div 8) + 1) \div Pow2(i % 8)) % 2

\* uint64_t division x / d by a word d # 0, one bit at a time from the top
\* bit down.  One byte of the dividend: the remainder r and the quotient
\* byte q after the bits 7..0 of byte i have been brought down.
RECURSIVE QuotientBits(_, _, _, _, _, _)
QuotientBits(x, d, i, bit, r, q) ==
    IF bit < 0 THEN [r |-> r, q |-> q]
    ELSE LET shifted == WrapAdd(WrapAdd(r, r, 8),
                                Word(WordBit(x, (8 * (i - 1)) + bit), 8), 8)
         IN  IF Less(shifted, d)
             THEN QuotientBits(x, d, i, bit - 1, shifted, 2 * q)
             ELSE QuotientBits(x, d, i, bit - 1, WrapSub(shifted, d, 8), (2 * q) + 1)

\* The bytes of the quotient, most significant first, from byte i down
RECURSIVE QuotientBytes(_, _, _, _)
QuotientBytes(x, d, i, r) ==
    IF i < 1 THEN <<>>
    ELSE LET byte == QuotientBits(x, d, i, 7, r, 0)
         IN  <<byte.q>> \o QuotientBytes(x, d, i - 1, byte.r)

WordDivWord(x, d) ==
    LET bytes == QuotientBytes(x, Resize(d, 8), 8, Word(0, 8))
    IN  [i \in 1..8 |-> bytes[9 - i]]

\* The fields FastUint32Division(uint32_t divisor) sets
NewFastUint32Division(d) ==
    IF d = Word(0, 4)
    THEN [divisor |-> d, multiplier |-> Word(0, 8), shiftAmount |-> 0]
    ELSE LET exponent == ExponentOfClosestPowerOfTwoGreaterOrEqualTo(d)
         IN  IF Resize(d, 8) = WordPow2(exponent, 8)
             THEN [divisor |-> d, multiplier |-> Word(1, 8), shiftAmount |-> exponent]
             ELSE [divisor |-> d,
                   multiplier |-> WrapAdd(WordDivWord(WordPow2(32 + (exponent - 1), 8), d),
                                          Word(1, 8), 8),
                   shiftAmount |-> 32 + (exponent - 1)]

\* The divisors and numerators of the 32-bit division: those of the 31-bit
\* division and words of the upper half of the 32-bit range.
UpperHalfWords ==
    OutOfRangeWords \cup { <<1, 0, 0, 128>>, <<0, 0, 0, 192>>, <<209, 204, 204, 204>>,
                           <<254, 255, 255, 255>> }

Divisors32 ==
    { Word(v, 4) : v \in (0..MaxSmallDivisor) \cup SpecialValues } \cup UpperHalfWords

Numerators32 ==
    { Word(v, 4) : v \in (0..MaxSmallNumerator) \cup SpecialValues } \cup UpperHalfWords

NoCall32 == [op |-> "none", numerator |-> Word(0, 4), quotient |-> Word(0, 4),
             remainder |-> Word(0, 4)]

\* FastUint32Division(): the default-constructed object
Div32Init ==
    /\ div32 = [divisor |-> Word(0, 4), multiplier |-> Word(0, 8), shiftAmount |-> 0]
    /\ div32Call = NoCall32

\* FastUint32Division(uint32_t divisor)
Construct32(d) ==
    /\ div32Call.op = "none"
    /\ div32' = NewFastUint32Division(d)
    /\ div32Call' = [NoCall32 EXCEPT !.op = "constructed"]
    /\ UNCHANGED notDiv32Vars

\* uint32_t FastUint32Division::Divide(uint32_t numerator)
Divide32(numerator) ==
    /\ div32Call.op \in {"none", "constructed"}
    /\ div32Call' = [op |-> "Divide", numerator |-> numerator,
                     quotient |-> Quotient(numerator, div32.multiplier, div32.shiftAmount),
                     remainder |-> Word(0, 4)]
    /\ UNCHANGED div32
    /\ UNCHANGED notDiv32Vars

\* QuotientAndRemainderUint32 FastUint32Division::DivideAndGetRemainder(uint32_t)
DivideAndGetRemainder32(numerator) ==
    /\ div32Call.op \in {"none", "constructed"}
    /\ LET quotient == Quotient(numerator, div32.multiplier, div32.shiftAmount)
           remainder == WrapSub(numerator, WrapMul(quotient, div32.divisor, 4), 4)
       IN  div32Call' = [op |-> "DivideAndGetRemainder", numerator |-> numerator,
                         quotient |-> quotient, remainder |-> remainder]
    /\ UNCHANGED div32
    /\ UNCHANGED notDiv32Vars

NextDivision32 ==
    \/ \E d \in Divisors32 : Construct32(d)
    \/ \E n \in Numerators32 : Divide32(n)
    \/ \E n \in Numerators32 : DivideAndGetRemainder32(n)

\* ------------------------------------------------------------------------
\* BitArray and OutputBitStream
\* ------------------------------------------------------------------------

\* A BitArray over a zero-initialized buffer of bitLength bits
ZeroBitArray(bitLength) ==
    [bytes |-> [i \in 1..((bitLength + 7) \div 8) |-> 0], bitLength |-> bitLength]

\* uint8_t BitArray::ReadBitAt(int64_t bitReadPosition)
ReadBitAt(array, bitReadPosition) ==
    LET byteIndex == bitReadPosition \div 8
        bitIndexInByte == bitReadPosition % 8
    IN  (array.bytes[byteIndex + 1] \div Pow2(bitIndexInByte)) % 2

\* A wrong write: the bit is assigned, so that writing 0 clears it.
WriteBitAtAssigns(array, bitWritePosition, bitValue) ==
    LET byteIndex == bitWritePosition \div 8
        bitIndexInByte == bitWritePosition % 8
        old == array.bytes[byteIndex + 1]
        oldBit == (old \div Pow2(bitIndexInByte)) % 2
    IN  [array EXCEPT !.bytes[byteIndex + 1] =
            old + ((bitValue - oldBit) * Pow2(bitIndexInByte))]

\* void BitArray::WriteBitAt(int64_t bitWritePosition, uint8_t bitValue):
\* bytes[byteIndex] |= bitValue << bitIndexInByte
WriteBitAt(array, bitWritePosition, bitValue) ==
    LET byteIndex == bitWritePosition \div 8
        bitIndexInByte == bitWritePosition % 8
        old == array.bytes[byteIndex + 1]
        oldBit == (old \div Pow2(bitIndexInByte)) % 2
    IN  [array EXCEPT !.bytes[byteIndex + 1] =
            IF bitValue = 1 /\ oldBit = 0 THEN old + Pow2(bitIndexInByte) ELSE old]

\* The BitArray holding the bits of a sequence, first bit first
RECURSIVE BitArrayOf(_)
BitArrayOf(bits) ==
    IF bits = <<>> THEN ZeroBitArray(0)
    ELSE LET front == BitArrayOf(SubSeq(bits, 1, Len(bits) - 1))
             grown == [bytes |-> IF Len(front.bytes) * 8 < Len(bits)
                                 THEN Append(front.bytes, 0) ELSE front.bytes,
                       bitLength |-> Len(bits)]
         IN  WriteBitAt(grown, Len(bits) - 1, bits[Len(bits)])

\* uint64_t BitArray::ByteLength()
ByteLength(array) == (array.bitLength + 7) \div 8

\* The BitArray under direct calls: its bit length is at most
\* MaxBitArrayBits and its buffer holds bytes of BufferBytes.
MaxBitArrayBits == 10

BufferBytes == {0, 165, 255}

RECURSIVE Buffers(_)
Buffers(n) ==
    IF n = 0 THEN {<<>>}
    ELSE { Append(front, byte) : front \in Buffers(n - 1), byte \in BufferBytes }

NoBitCall == [op |-> "none", position |-> 0, result |-> 0]

BitInit ==
    /\ bitArray = [bytes |-> <<>>, bitLength |-> -1]
    /\ bitArrayInitial = <<>>
    /\ bitWrites = <<>>
    /\ bitCall = NoBitCall

\* BitArray(uint8_t* bytes, int64_t bitLength) over a buffer of
\* ceil(bitLength / 8) bytes
BitArrayConstruct(bytes, bitLength) ==
    /\ bitArray.bitLength < 0
    /\ Len(bytes) = (bitLength + 7) \div 8
    /\ bitArray' = [bytes |-> bytes, bitLength |-> bitLength]
    /\ bitArrayInitial' = bytes
    /\ UNCHANGED <<bitWrites, bitCall>>
    /\ UNCHANGED notBitVars

\* A call of WriteBitAt(position, bit); a second call is made at the
\* position of the first.
BitArrayWrite(position, bit) ==
    /\ bitArray.bitLength >= 0
    /\ bitCall.op = "none"
    /\ position < bitArray.bitLength
    /\ \/ bitWrites = <<>>
       \/ Len(bitWrites) = 1 /\ bitWrites[1][1] = position
    /\ bitArray' = WriteBitAt(bitArray, position, bit)
    /\ bitWrites' = Append(bitWrites, <<position, bit>>)
    /\ UNCHANGED <<bitArrayInitial, bitCall>>
    /\ UNCHANGED notBitVars

\* A call of ReadBitAt(position)
BitArrayRead(position) ==
    /\ bitArray.bitLength >= 0
    /\ bitCall.op = "none"
    /\ position < bitArray.bitLength
    /\ bitCall' = [op |-> "ReadBitAt", position |-> position,
                   result |-> ReadBitAt(bitArray, position)]
    /\ UNCHANGED <<bitArray, bitArrayInitial, bitWrites>>
    /\ UNCHANGED notBitVars

\* A call of ByteLength()
BitArrayByteLength ==
    /\ bitArray.bitLength >= 0
    /\ bitCall.op = "none"
    /\ bitCall' = [op |-> "ByteLength", position |-> 0, result |-> ByteLength(bitArray)]
    /\ UNCHANGED <<bitArray, bitArrayInitial, bitWrites>>
    /\ UNCHANGED notBitVars

NextBitArray ==
    \/ \E bitLength \in 0..MaxBitArrayBits, bytes \in Buffers((MaxBitArrayBits + 7) \div 8)
                                                   \cup Buffers(1) \cup Buffers(0) :
            BitArrayConstruct(bytes, bitLength)
    \/ \E position \in 0..(MaxBitArrayBits - 1), bit \in {0, 1} :
            BitArrayWrite(position, bit)
    \/ \E position \in 0..(MaxBitArrayBits - 1) : BitArrayRead(position)
    \/ BitArrayByteLength

\* OutputBitStream(initialBitCapacity): no bytes, bit length 0
EmptyBitStream == [bytes |-> <<>>, bitLength |-> 0]

\* A wrong write: the bits of a byte are filled from the most significant.
WriteBitMostSignificantFirst(bitStream, bit) ==
    LET byteIndex == bitStream.bitLength \div 8
        bitIndexInByte == 7 - (bitStream.bitLength % 8)
        bytes == IF byteIndex = Len(bitStream.bytes) THEN Append(bitStream.bytes, 0)
                 ELSE bitStream.bytes
        old == bytes[byteIndex + 1]
        oldBit == (old \div Pow2(bitIndexInByte)) % 2
    IN  [bytes |-> [bytes EXCEPT ![byteIndex + 1] =
                        IF bit = 1 /\ oldBit = 0 THEN old + Pow2(bitIndexInByte) ELSE old],
         bitLength |-> bitStream.bitLength + 1]

\* void OutputBitStream::WriteBit(uint8_t bit)
WriteBit(bitStream, bit) ==
    LET byteIndex == bitStream.bitLength \div 8
        bitIndexInByte == bitStream.bitLength % 8
        bytes == IF byteIndex = Len(bitStream.bytes) THEN Append(bitStream.bytes, 0)
                 ELSE bitStream.bytes
        old == bytes[byteIndex + 1]
        oldBit == (old \div Pow2(bitIndexInByte)) % 2
    IN  [bytes |-> [bytes EXCEPT ![byteIndex + 1] =
                        IF bit = 1 /\ oldBit = 0 THEN old + Pow2(bitIndexInByte) ELSE old],
         bitLength |-> bitStream.bitLength + 1]

\* The OutputBitStream under direct calls receives at most MaxStreamBits
\* bits.
MaxStreamBits == 10

InitialBitCapacities == {0, 1, 8, 1000}

\* The byte vectors given to the constructor from a vector
GivenVectors == { <<>>, <<0>>, <<255>>, <<1, 2>> }

\* The last call on the stream; fromVector and given record the constructor
\* that built it and the vector it was given
NoStreamCall == [op |-> "none", initialBitCapacity |-> 0, pushed |-> FALSE,
                 fromVector |-> FALSE, given |-> <<>>]

StreamInit ==
    /\ stream = EmptyBitStream
    /\ streamWrites = <<>>
    /\ streamCall = NoStreamCall

\* OutputBitStream(initialBitCapacity): the capacity is reserved, the stream
\* is empty
StreamConstruct(initialBitCapacity) ==
    /\ streamCall.op = "none"
    /\ stream' = EmptyBitStream
    /\ streamCall' = [op |-> "OutputBitStream", initialBitCapacity |-> initialBitCapacity,
                      pushed |-> FALSE, fromVector |-> FALSE, given |-> <<>>]
    /\ UNCHANGED streamWrites
    /\ UNCHANGED notStreamVars

\* OutputBitStream(std::vector<uint8_t> bytes) : bytes(bytes): the member is
\* a copy of the given vector and bitLength is 0.  (The earlier revision
\* calls bytes.clear() in the body, where bytes names the parameter: the
\* member keeps the copy in both revisions.)
StreamConstructFromVector(given) ==
    /\ streamCall.op = "none"
    /\ stream' = [bytes |-> given, bitLength |-> 0]
    /\ streamCall' = [op |-> "OutputBitStream", initialBitCapacity |-> 0,
                      pushed |-> FALSE, fromVector |-> TRUE, given |-> given]
    /\ UNCHANGED streamWrites
    /\ UNCHANGED notStreamVars

\* A call of WriteBit(bit)
StreamWriteBit(bit) ==
    /\ streamCall.op # "none"
    /\ Len(streamWrites) < MaxStreamBits
    /\ stream' = WriteBit(stream, bit)
    /\ streamWrites' = Append(streamWrites, bit)
    /\ streamCall' = [streamCall EXCEPT
                         !.op = "WriteBit",
                         !.pushed = Len(stream'.bytes) > Len(stream.bytes)]
    /\ UNCHANGED notStreamVars

NextStream ==
    \/ \E initialBitCapacity \in InitialBitCapacities : StreamConstruct(initialBitCapacity)
    \/ \E given \in GivenVectors : StreamConstructFromVector(given)
    \/ \E bit \in {0, 1} : StreamWriteBit(bit)

\* ------------------------------------------------------------------------
\* FastUint32MultiplicationByFraction
\* ------------------------------------------------------------------------

\* A probability is a double in the code.  The model holds it as a whole
\* number of billionths (probabilityEpsilon = 1e-9 is one unit), which is
\* exact for the clipping and for the fixed-point multiplier of every
\* probability that is a multiple of 1e-9.
ProbabilityScale == 1000000000

\* A wrong clip: no upper limit.
clipFromBelowOnly(num, min, max) == IF num < min THEN min ELSE num

\* T clip(T num, T min, T max)
clip(num, min, max) == IF num < min THEN min ELSE IF num > max THEN max ELSE num

\* The constructor's range check: fraction < 0.0 || fraction > 1.0 throws
FractionRejected(fraction) == fraction < 0 \/ fraction > ProbabilityScale

\* scaledMultiplier = uint64_t(fractionBetween0And1 * scaleFactor),
\* scaleFactor = 2^32
ScaledMultiplier(fraction) ==
    WordDiv(WrapMul(Word(fraction, 8), WordPow2(32, 8), 8), ProbabilityScale)

\* A wrong product: taken in 32 bits, before the shift.
MultiplyIn32Bits(scaledMultiplier, multiplicand) ==
    ShiftRight(WrapMul(multiplicand, scaledMultiplier, 4), 32, 4)

\* uint32_t Multiply(uint32_t multiplicand):
\* uint32_t((multiplicand * scaledMultiplier) >> 32)
Multiply(scaledMultiplier, multiplicand) ==
    ShiftRight(WrapMul(Resize(multiplicand, 8), scaledMultiplier, 8), 32, 4)

\* The fractions given to the constructor, in billionths: the ends of
\* [0, 1], values inside it, and values outside it.
Fractions ==
    { -1, 0, 1, 10000000, 123456789, 250000000, 300000000, 333333333, 500000000,
      750000000, 990000000, 999999999, 1000000000, 1000000001 }

\* The multiplicands: 0 .. MaxSmallMultiplicand, values around the powers of
\* two and the ends of the 32-bit range.
MaxSmallMultiplicand == 8

Multiplicands ==
    { Word(v, 4) : v \in (0..MaxSmallMultiplicand) \cup SpecialValues }
        \cup OutOfRangeWords \cup { <<254, 255, 255, 255>>, <<0, 0, 0, 192>> }

NoFractionMultiplier ==
    [pc |-> "none", fractionBetween0And1 |-> 0, scaledMultiplier |-> Word(0, 8)]

NoMultiplyCall == [op |-> "none", multiplicand |-> Word(0, 4), result |-> Word(0, 4)]

FracInit ==
    /\ fracMul = NoFractionMultiplier
    /\ mulCall = NoMultiplyCall

\* FastUint32MultiplicationByFraction(double fractionBetween0And1), fraction
\* outside [0, 1]: throws
FractionConstructThrows(fraction) ==
    /\ fracMul.pc = "none"
    /\ FractionRejected(fraction)
    /\ fracMul' = [NoFractionMultiplier EXCEPT !.pc = "threw",
                                               !.fractionBetween0And1 = fraction]
    /\ UNCHANGED mulCall
    /\ UNCHANGED notFracVars

\* FastUint32MultiplicationByFraction(double fractionBetween0And1)
FractionConstruct(fraction) ==
    /\ fracMul.pc = "none"
    /\ ~FractionRejected(fraction)
    /\ fracMul' = [pc |-> "constructed", fractionBetween0And1 |-> fraction,
                   scaledMultiplier |-> ScaledMultiplier(fraction)]
    /\ UNCHANGED mulCall
    /\ UNCHANGED notFracVars

\* A call of Multiply(multiplicand) on the constructed object
FractionMultiply(multiplicand) ==
    /\ fracMul.pc = "constructed"
    /\ mulCall.op = "none"
    /\ mulCall' = [op |-> "Multiply", multiplicand |-> multiplicand,
                   result |-> Multiply(fracMul.scaledMultiplier, multiplicand)]
    /\ UNCHANGED fracMul
    /\ UNCHANGED notFracVars

NextFraction ==
    \/ \E fraction \in Fractions : FractionConstructThrows(fraction)
    \/ \E fraction \in Fractions : FractionConstruct(fraction)
    \/ \E multiplicand \in Multiplicands : FractionMultiply(multiplicand)

\* ------------------------------------------------------------------------
\* BinaryArithmeticCoder: constants
\* ------------------------------------------------------------------------

totalRangeBitWidth == 32

\* No clipping away from 0 and 1.
NoProbabilityEpsilon == 1 - 1

probabilityEpsilon == 1

lowest == Word(0, 8)
highest == WordPow2(totalRangeBitWidth, 8)

quarterRange == WordPow2(totalRangeBitWidth - 2, 8)
halfRange == WordPow2(totalRangeBitWidth - 1, 8)
threeQuartersRange == WrapSub(highest, quarterRange, 8)

\* A wrong initial interval: high = highest, which a uint32_t cannot hold.
InitialHighTruncated == Resize(highest, 4)

\* uint32_t high = highest - 1
InitialHigh == Resize(WrapSub(highest, Word(1, 8), 8), 4)

\* x * 2 in uint32_t
Twice(x) == WrapAdd(x, x, 4)

\* (x - offset) * 2, the difference taken in uint64_t (offset is a uint64_t
\* constant) and the product stored back into a uint32_t
ShiftAndScale(x, offset) ==
    LET shifted == WrapSub(Resize(x, 8), offset, 8)
    IN  Resize(WrapAdd(shifted, shifted, 8), 4)

BoundaryAtMidpoint(low, high, scaledMultiplier) ==
    WrapAdd(low, ShiftRight(WrapSub(high, low, 4), 1, 4), 4)

\* The boundary between the sub-intervals of 0 and 1 within [low, high)
Boundary(low, high, scaledMultiplier) ==
    LET intervalLength == WrapSub(high, low, 4)
        lowerSubintervalLength == Multiply(scaledMultiplier, intervalLength)
    IN  WrapAdd(low, lowerSubintervalLength, 4)

\* A wrong first case: low is tested where high should be.
InLowerHalfByLow(low, high) == Less(low, halfRange)

\* A wrong loop: the third case is missing.
NeverInMiddleHalf(low, high) == FALSE

\* The three cases of the normalization loop, tested in this order
InLowerHalf(low, high) == Less(high, halfRange)
InUpperHalf(low, high) == ~InLowerHalf(low, high) /\ ~Less(low, halfRange)
InMiddleHalf(low, high) ==
    /\ ~InLowerHalf(low, high)
    /\ Less(low, halfRange)
    /\ ~Less(low, quarterRange)
    /\ Less(high, threeQuartersRange)
Normalized(low, high) ==
    ~InLowerHalf(low, high) /\ ~InUpperHalf(low, high) /\ ~InMiddleHalf(low, high)

\* ------------------------------------------------------------------------
\* BinaryArithmeticCoder::Encode
\* ------------------------------------------------------------------------

\* The inputs of the coder model: every message of at most MaxMessageBits
\* bits, and probabilities inside, at the ends of and outside [0, 1].
MaxMessageBits == 4

RECURSIVE BitStrings(_)
BitStrings(n) ==
    IF n = 0 THEN {<<>>}
    ELSE LET shorter == BitStrings(n - 1)
         IN  shorter \cup { Append(m, b) : m \in { x \in shorter : Len(x) = n - 1 }, b \in {0, 1} }

Messages == BitStrings(MaxMessageBits)

Probabilities ==
    { -500000000, 0, 1, 10000000, 300000000, 500000000, 990000000, 999999999,
      1000000000, 1500000000 }

NotEncoding ==
    [pc |-> "idle", argProbabilityOf1 |-> 0, probabilityOf1 |-> 0,
     scaledMultiplier |-> Word(0, 8), low |-> Word(0, 4), high |-> Word(0, 4),
     pendingBitCount |-> 0, readPosition |-> 0, normalizeSteps |-> 0,
     start |-> 0, repeat |-> FALSE, previous |-> <<>>,
     intervals |-> <<>>, renormalizations |-> 0, finalPendingBitCount |-> 0]

\* A wrong resolution: the pending bits are forgotten.
DropPendingBits(bitStream, pendingBitCount, bit) == bitStream

\* A wrong resolution: an if for the while, at most one pending bit is output.
OutputOnePendingBit(bitStream, pendingBitCount, bit) ==
    IF pendingBitCount > 0 THEN WriteBit(bitStream, bit) ELSE bitStream

\* outputPendingBitsAs(bit): while (pendingBitCount > 0) { outputBit(bit); ... }
RECURSIVE OutputPendingBitsAs(_, _, _)
OutputPendingBitsAs(bitStream, pendingBitCount, bit) ==
    IF pendingBitCount > 0
    THEN OutputPendingBitsAs(WriteBit(bitStream, bit), pendingBitCount - 1, bit)
    ELSE bitStream

\* The bits of a bit array from position start on
BitsFrom(array, start) ==
    [i \in 1..(array.bitLength - start) |-> ReadBitAt(array, start + i - 1)]

\* Encode is called: the probability is clipped, the multiplier for the
\* probability of 0 is built and the interval is set to [0, highest - 1].
\* The stream may hold bits already (start is its length at the call);
\* repeat and previous record whether Encode was called before on the
\* same bits and probability, and what that call appended.  intervals
\* records the interval at the end of the normalization of each input bit,
\* renormalizations counts the normalization steps of the call and
\* finalPendingBitCount is the pending bit count the finalization found.
EncodeCall(array, bitStream, p, repeat, previous) ==
    /\ inputBitArray' = array
    /\ outputBitStream' = bitStream
    /\ LET probabilityOf1 == clip(p, 0 + probabilityEpsilon,
                                  ProbabilityScale - probabilityEpsilon)
           probabilityOf0 == ProbabilityScale - probabilityOf1
       IN  enc' = IF FractionRejected(probabilityOf0)
                  THEN [NotEncoding EXCEPT !.pc = "threw", !.argProbabilityOf1 = p,
                                           !.start = bitStream.bitLength,
                                           !.repeat = repeat, !.previous = previous]
                  ELSE [pc |-> "loop",
                        argProbabilityOf1 |-> p,
                        probabilityOf1 |-> probabilityOf1,
                        scaledMultiplier |-> ScaledMultiplier(probabilityOf0),
                        low |-> Resize(lowest, 4),
                        high |-> InitialHigh,
                        pendingBitCount |-> 0,
                        readPosition |-> 0,
                        normalizeSteps |-> 0,
                        start |-> bitStream.bitLength,
                        repeat |-> repeat,
                        previous |-> previous,
                        intervals |-> <<>>,
                        renormalizations |-> 0,
                        finalPendingBitCount |-> 0]
    /\ UNCHANGED <<encodedBitArray, outputBitArray, dec>>
    /\ UNCHANGED notBacVars

\* Encode is called on a fresh stream
EncodeBeginOn(array, p) ==
    /\ enc.pc = "idle"
    /\ dec.pc = "idle"
    /\ EncodeCall(array, EmptyBitStream, p, FALSE, <<>>)

\* The same bits in another buffer: the bits of the last byte past the bit
\* length are set, and one more byte follows
WithOtherPadding(array) ==
    LET byteCount == Len(array.bytes)
        used == array.bitLength - (8 * (byteCount - 1))
    IN  [bytes |-> [i \in 1..(byteCount + 1) |->
                       IF i > byteCount THEN 255
                       ELSE IF i = byteCount /\ used < 8
                            THEN (array.bytes[i] % Pow2(used)) + (256 - Pow2(used))
                            ELSE array.bytes[i]],
         bitLength |-> array.bitLength]

\* A stream that other writers have written to already
OtherStream == WriteBit(WriteBit(WriteBit(EmptyBitStream, 1), 0), 1)

\* Encode is called once more on the same bits and probability, from
\* another buffer and on a stream that holds bits already
EncodeAgain ==
    /\ enc.pc = "done"
    /\ ~enc.repeat
    /\ dec.pc = "idle"
    /\ EncodeCall(WithOtherPadding(inputBitArray), OtherStream, enc.argProbabilityOf1,
                  TRUE, BitsFrom(outputBitStream, enc.start))

\* Encode is called on a message of the message set
EncodeBegin(message, p) == EncodeBeginOn(BitArrayOf(message), p)

\* The skewed source: SkewedInputBits zero bits, encoded with
\* probabilityOf1 = 0.01
SkewedInputBits == 1000

SkewedProbabilityOf1 == ProbabilityScale \div 100

EncodeSkewed == EncodeBeginOn(ZeroBitArray(SkewedInputBits), SkewedProbabilityOf1)

\* The alternating input 1010101010, encoded with probabilityOf1 = 0.5
AlternatingInput == <<1, 0, 1, 0, 1, 0, 1, 0, 1, 0>>

EncodeAlternating == EncodeBeginOn(BitArrayOf(AlternatingInput), ProbabilityScale \div 2)

\* Narrow the current interval by the next input bit
EncodeNarrow ==
    /\ enc.pc = "loop"
    /\ enc.readPosition < inputBitArray.bitLength
    /\ LET inputBit == ReadBitAt(inputBitArray, enc.readPosition)
           boundary == Boundary(enc.low, enc.high, enc.scaledMultiplier)
       IN  enc' = IF inputBit = 0
                  THEN [enc EXCEPT !.pc = "normalize", !.high = boundary,
                                   !.normalizeSteps = 0]
                  ELSE [enc EXCEPT !.pc = "normalize", !.low = boundary,
                                   !.normalizeSteps = 0]
    /\ UNCHANGED <<inputBitArray, outputBitStream, encodedBitArray, outputBitArray, dec>>
    /\ UNCHANGED notBacVars

\* Normalization, interval in the lower half: output 0 and the pending bits as 1s
EncodeLowerHalf ==
    /\ enc.pc = "normalize"
    /\ InLowerHalf(enc.low, enc.high)
    /\ outputBitStream' =
           OutputPendingBitsAs(WriteBit(outputBitStream, 0), enc.pendingBitCount, 1)
    /\ enc' = [enc EXCEPT !.normalizeSteps = enc.normalizeSteps + 1,
                          !.renormalizations = enc.renormalizations + 1,
                          !.pendingBitCount = 0,
                          !.low = Twice(enc.low),
                          !.high = Twice(enc.high)]
    /\ UNCHANGED <<inputBitArray, encodedBitArray, outputBitArray, dec>>
    /\ UNCHANGED notBacVars

\* Normalization, interval in the upper half: output 1 and the pending bits as 0s
EncodeUpperHalf ==
    /\ enc.pc = "normalize"
    /\ InUpperHalf(enc.low, enc.high)
    /\ outputBitStream' =
           OutputPendingBitsAs(WriteBit(outputBitStream, 1), enc.pendingBitCount, 0)
    /\ enc' = [enc EXCEPT !.normalizeSteps = enc.normalizeSteps + 1,
                          !.renormalizations = enc.renormalizations + 1,
                          !.pendingBitCount = 0,
                          !.low = ShiftAndScale(enc.low, halfRange),
                          !.high = ShiftAndScale(enc.high, halfRange)]
    /\ UNCHANGED <<inputBitArray, encodedBitArray, outputBitArray, dec>>
    /\ UNCHANGED notBacVars

\* Normalization, interval in the middle half: one more pending bit
EncodeMiddleHalf ==
    /\ enc.pc = "normalize"
    /\ InMiddleHalf(enc.low, enc.high)
    /\ enc' = [enc EXCEPT !.normalizeSteps = enc.normalizeSteps + 1,
                          !.renormalizations = enc.renormalizations + 1,
                          !.pendingBitCount = enc.pendingBitCount + 1,
                          !.low = ShiftAndScale(enc.low, quarterRange),
                          !.high = ShiftAndScale(enc.high, quarterRange)]
    /\ UNCHANGED <<inputBitArray, outputBitStream, encodedBitArray, outputBitArray, dec>>
    /\ UNCHANGED notBacVars

\* Normalization ends: on to the next input bit
EncodeBreak ==
    /\ enc.pc = "normalize"
    /\ Normalized(enc.low, enc.high)
    /\ enc' = [enc EXCEPT !.pc = "loop", !.readPosition = enc.readPosition + 1,
                          !.intervals = Append(enc.intervals,
                                               [low |-> enc.low, high |-> enc.high])]
    /\ UNCHANGED <<inputBitArray, outputBitStream, encodedBitArray, outputBitArray, dec>>
    /\ UNCHANGED notBacVars

\* A wrong finalization: the definitive bit is 0 wherever low is.
FinalBitAlwaysZero(low) == 0

FinalBitInverted(low) == IF Less(low, quarterRange) THEN 1 ELSE 0

\* The first definitive bit of the finalization: 0 when low is in the first quarter
FinalBit(low) == IF Less(low, quarterRange) THEN 0 ELSE 1

\* Finalize: one more pending bit, the definitive bit, then the pending
\* bits with the opposite value
EncodeFinalize ==
    /\ enc.pc = "loop"
    /\ enc.readPosition >= inputBitArray.bitLength
    /\ LET pendingBitCount == enc.pendingBitCount + 1
           bit == FinalBit(enc.low)
       IN  outputBitStream' =
               OutputPendingBitsAs(WriteBit(outputBitStream, bit), pendingBitCount, 1 - bit)
    /\ enc' = [enc EXCEPT !.pc = "done", !.pendingBitCount = 0,
                          !.finalPendingBitCount = enc.pendingBitCount]
    /\ UNCHANGED <<inputBitArray, encodedBitArray, outputBitArray, dec>>
    /\ UNCHANGED notBacVars

\* ------------------------------------------------------------------------
\* BinaryArithmeticCoder::Decode
\* ------------------------------------------------------------------------

\* Encoded inputs that no encoder produced: every bit string of at most
\* MaxArbitraryBits bits.
MaxArbitraryBits == 3

ArbitraryInputs == BitStrings(MaxArbitraryBits)

NotDecoding ==
    [pc |-> "idle", source |-> "none", argProbabilityOf1 |-> 0, probabilityOf1 |-> 0,
     scaledMultiplier |-> Word(0, 8), low |-> Word(0, 4), high |-> Word(0, 4),
     value |-> Word(0, 4), readPosition |-> 0, writePosition |-> 0,
     normalizeSteps |-> 0, repeat |-> FALSE, previous |-> <<>>]

\* A wrong read: the bit is not put into value.
OrBitDropped(value, bit) == value

\* value |= bit, on a uint32_t
OrBit(value, bit) ==
    [value EXCEPT ![1] = IF bit = 1 /\ value[1] % 2 = 0 THEN value[1] + 1 ELSE value[1]]

\* while (readPosition < initialBitCount) { value *= 2; value |= ReadBitAt(readPosition++); }
\* (value is a uint32_t: four bytes at every iteration)
RECURSIVE FillValue(_, _, _, _)
FillValue(array, initialBitCount, readPosition, value) ==
    IF Len(value) = 4 /\ readPosition < initialBitCount
    THEN FillValue(array, initialBitCount, readPosition + 1,
                   OrBit(Twice(value), ReadBitAt(array, readPosition)))
    ELSE value

\* A wrong initialization: the padding shift is forgotten.
NoPaddingShift(value, shift) == {value}

\* value << shift on a uint32_t.  A shift by the full width of the type
\* (an empty encoded input: shift = 32) is undefined in C++; the builds
\* either mask the shift count to five bits or shift every bit out.
ShiftLeftOutcomes(value, shift) ==
    IF shift < 32 THEN { WrapMul(value, WordPow2(shift, 4), 4) }
    ELSE { WrapMul(value, WordPow2(shift % 32, 4), 4), Word(0, 4) }

InitialBitCountOfWholeBytes(inputBitLength) ==
    IF inputBitLength >= totalRangeBitWidth THEN totalRangeBitWidth
    ELSE 8 * ((inputBitLength + 7) \div 8)

\* initialBitCount = inputBitLength >= totalRangeBitWidth ? totalRangeBitWidth : inputBitLength
InitialBitCount(inputBitLength) ==
    IF inputBitLength >= totalRangeBitWidth THEN totalRangeBitWidth ELSE inputBitLength

\* Decode is called on an encoded bit array, an output array pre-sized to
\* outputBitLength bits and a probability: the locals are set up and value
\* is filled with the first bits of the input.  repeat and previous record
\* whether Decode was called before on the same bits, length and
\* probability, and what that call wrote.
DecodeCall(source, encoded, outputBitLength, p, repeat, previous) ==
    /\ encodedBitArray' = encoded
    /\ outputBitArray' = ZeroBitArray(outputBitLength)
    /\ LET probabilityOf1 == clip(p, 0 + probabilityEpsilon,
                                  ProbabilityScale - probabilityEpsilon)
           probabilityOf0 == ProbabilityScale - probabilityOf1
           initialBitCount == InitialBitCount(encoded.bitLength)
           filled == FillValue(encoded, initialBitCount, 0, Resize(lowest, 4))
       IN  IF FractionRejected(probabilityOf0)
           THEN dec' = [NotDecoding EXCEPT !.pc = "threw", !.source = source,
                                           !.argProbabilityOf1 = p,
                                           !.repeat = repeat, !.previous = previous]
           ELSE \E padded \in ShiftLeftOutcomes(filled, totalRangeBitWidth - initialBitCount) :
                   dec' = [pc |-> "loop",
                           source |-> source,
                           argProbabilityOf1 |-> p,
                           probabilityOf1 |-> probabilityOf1,
                           scaledMultiplier |-> ScaledMultiplier(probabilityOf0),
                           low |-> Resize(lowest, 4),
                           high |-> InitialHigh,
                           value |-> padded,
                           readPosition |-> initialBitCount,
                           writePosition |-> 0,
                           normalizeSteps |-> 0,
                           repeat |-> repeat,
                           previous |-> previous]
    /\ UNCHANGED <<inputBitArray, outputBitStream, enc>>
    /\ UNCHANGED notBacVars

\* Decode is called for the first time on its arguments
DecodeBegin(source, encoded, outputBitLength, p) ==
    /\ dec.pc = "idle"
    /\ DecodeCall(source, encoded, outputBitLength, p, FALSE, <<>>)

\* Decode is called once more on the same bits, length and probability,
\* from another buffer, with a zero-initialized output
DecodeAgain ==
    /\ dec.pc = "done"
    /\ ~dec.repeat
    /\ DecodeCall(dec.source, WithOtherPadding(encodedBitArray), outputBitArray.bitLength,
                  dec.argProbabilityOf1, TRUE, BitsFrom(outputBitArray, 0))

\* The caller decodes what Encode produced: BitArray(Data(), BitLength()),
\* the message's length and the probability given to Encode.
DecodeEncoded ==
    /\ enc.pc = "done"
    /\ enc.start = 0
    /\ DecodeBegin("encoder", outputBitStream, inputBitArray.bitLength,
                   enc.argProbabilityOf1)

\* The caller decodes a bit array that no encoder produced.
DecodeArbitrary(bits, outputBitLength, p) ==
    /\ enc.pc = "idle"
    /\ DecodeBegin("arbitrary", BitArrayOf(bits), outputBitLength, p)

\* Decide the next symbol by where value falls, and narrow the interval
DecodeNarrow ==
    /\ dec.pc = "loop"
    /\ dec.writePosition < outputBitArray.bitLength
    /\ LET boundary == Boundary(dec.low, dec.high, dec.scaledMultiplier)
       IN  IF Less(dec.value, boundary)
           THEN /\ outputBitArray' = WriteBitAt(outputBitArray, dec.writePosition, 0)
                /\ dec' = [dec EXCEPT !.pc = "normalize", !.high = boundary,
                                      !.writePosition = dec.writePosition + 1,
                                      !.normalizeSteps = 0]
           ELSE /\ outputBitArray' = WriteBitAt(outputBitArray, dec.writePosition, 1)
                /\ dec' = [dec EXCEPT !.pc = "normalize", !.low = boundary,
                                      !.writePosition = dec.writePosition + 1,
                                      !.normalizeSteps = 0]
    /\ UNCHANGED <<inputBitArray, outputBitStream, enc, encodedBitArray>>
    /\ UNCHANGED notBacVars

\* A wrong guard: one bit past the end of the input is read.
MayReadOnePastEnd(readPosition, inputBitLength) == readPosition <= inputBitLength

\* if (readPosition < inputBitLength)
MayReadNextBit(readPosition, inputBitLength) == readPosition < inputBitLength

\* The end of a normalization step: read the next input bit, if there is
\* one, into the least significant bit of value.  Reading a bit that the
\* input does not hold is a read outside the caller's buffer.
ReadNextBit(low, high, value) ==
    IF MayReadNextBit(dec.readPosition, encodedBitArray.bitLength)
    THEN IF dec.readPosition >= encodedBitArray.bitLength
         THEN [dec EXCEPT !.pc = "readPastEnd"]
         ELSE [dec EXCEPT !.low = low, !.high = high,
                          !.value = OrBit(value, ReadBitAt(encodedBitArray, dec.readPosition)),
                          !.readPosition = dec.readPosition + 1,
                          !.normalizeSteps = dec.normalizeSteps + 1]
    ELSE [dec EXCEPT !.low = low, !.high = high, !.value = value,
                     !.normalizeSteps = dec.normalizeSteps + 1]

\* Normalization, interval in the lower half
DecodeLowerHalf ==
    /\ dec.pc = "normalize"
    /\ InLowerHalf(dec.low, dec.high)
    /\ dec' = ReadNextBit(Twice(dec.low), Twice(dec.high), Twice(dec.value))
    /\ UNCHANGED <<inputBitArray, outputBitStream, enc, encodedBitArray, outputBitArray>>
    /\ UNCHANGED notBacVars

\* Normalization, interval in the upper half
DecodeUpperHalf ==
    /\ dec.pc = "normalize"
    /\ InUpperHalf(dec.low, dec.high)
    /\ dec' = ReadNextBit(ShiftAndScale(dec.low, halfRange),
                          ShiftAndScale(dec.high, halfRange),
                          ShiftAndScale(dec.value, halfRange))
    /\ UNCHANGED <<inputBitArray, outputBitStream, enc, encodedBitArray, outputBitArray>>
    /\ UNCHANGED notBacVars

\* Normalization, interval in the middle half
DecodeMiddleHalf ==
    /\ dec.pc = "normalize"
    /\ InMiddleHalf(dec.low, dec.high)
    /\ dec' = ReadNextBit(ShiftAndScale(dec.low, quarterRange),
                          ShiftAndScale(dec.high, quarterRange),
                          ShiftAndScale(dec.value, quarterRange))
    /\ UNCHANGED <<inputBitArray, outputBitStream, enc, encodedBitArray, outputBitArray>>
    /\ UNCHANGED notBacVars

\* Normalization ends: on to the next output bit
DecodeBreak ==
    /\ dec.pc = "normalize"
    /\ Normalized(dec.low, dec.high)
    /\ dec' = [dec EXCEPT !.pc = "loop"]
    /\ UNCHANGED <<inputBitArray, outputBitStream, enc, encodedBitArray, outputBitArray>>
    /\ UNCHANGED notBacVars

\* The requested number of bits has been written: Decode returns
DecodeReturn ==
    /\ dec.pc = "loop"
    /\ dec.writePosition >= outputBitArray.bitLength
    /\ dec' = [dec EXCEPT !.pc = "done"]
    /\ UNCHANGED <<inputBitArray, outputBitStream, enc, encodedBitArray, outputBitArray>>
    /\ UNCHANGED notBacVars

BacInit ==
    /\ inputBitArray = ZeroBitArray(0)
    /\ outputBitStream = EmptyBitStream
    /\ enc = NotEncoding
    /\ encodedBitArray = ZeroBitArray(0)
    /\ outputBitArray = ZeroBitArray(0)
    /\ dec = NotDecoding

NextBAC ==
    \/ /\ enc.pc = "idle"
       /\ dec.pc = "idle"
       /\ \E message \in Messages, p \in Probabilities : EncodeBegin(message, p)
    \/ EncodeSkewed
    \/ EncodeAlternating
    \/ EncodeNarrow
    \/ EncodeLowerHalf
    \/ EncodeUpperHalf
    \/ EncodeMiddleHalf
    \/ EncodeBreak
    \/ EncodeFinalize
    \/ EncodeAgain
    \/ DecodeEncoded
    \/ /\ enc.pc = "idle"
       /\ dec.pc = "idle"
       /\ \E bits \in ArbitraryInputs, n \in 0..MaxMessageBits, p \in Probabilities :
              DecodeArbitrary(bits, n, p)
    \/ DecodeNarrow
    \/ DecodeLowerHalf
    \/ DecodeUpperHalf
    \/ DecodeMiddleHalf
    \/ DecodeBreak
    \/ DecodeReturn
    \/ DecodeAgain


\* ------------------------------------------------------------------------
\* BinaryRangeANSCoder: construction
\* ------------------------------------------------------------------------

\* The range bit widths given to the constructor: 0 .. MaxRangeBits and the
\* widest width for which every state stays below 2^31.
MaxRangeBits == 3

RangeBitWidths == (0..MaxRangeBits) \cup {23}

\* round(x) for x = numerator / ProbabilityScale >= 0: to the nearest whole
\* number, halves away from zero
RoundScaled(numerator) ==
    WordValue(WordDiv(WrapAdd(WrapAdd(numerator, numerator, 8),
                              Word(ProbabilityScale, 8), 8),
                      2 * ProbabilityScale))

\* uint64_t(round(probabilityOf0 * totalFrequency)).  A negative product
\* that rounds to -1 or below has no uint64_t value and the conversion is
\* undefined: the builds either keep the low 64 bits of the signed value (a
\* value above every total frequency) or saturate to 0.
FrequencyOf0Outcomes(probabilityOf0, totalFrequency) ==
    IF probabilityOf0 >= 0
    THEN { RoundScaled(WrapMul(Word(probabilityOf0, 8), Word(totalFrequency, 8), 8)) }
    ELSE LET magnitude ==
                 RoundScaled(WrapMul(Word(-probabilityOf0, 8), Word(totalFrequency, 8), 8))
         IN  IF magnitude = 0 THEN {0} ELSE {0, 2147483647}

NoCoder ==
    [constructed |-> FALSE, probabilityOf1 |-> 0, totalFrequencySpaceBits |-> 0,
     totalFrequency |-> 0, frequencyOf |-> <<0, 0>>, cumulativeFrequencyOf |-> <<0, 0>>]

\* A wrong constructor: the frequency of symbol 0 is not clipped.
NewCoderUnclipped(p, bits, frequencyOf0Unclipped) ==
    LET totalFrequency == Pow2(bits)
        frequencyOf0 == IF frequencyOf0Unclipped > totalFrequency THEN totalFrequency
                        ELSE frequencyOf0Unclipped
    IN  [constructed |-> TRUE,
         probabilityOf1 |-> p,
         totalFrequencySpaceBits |-> bits,
         totalFrequency |-> totalFrequency,
         frequencyOf |-> <<frequencyOf0, totalFrequency - frequencyOf0>>,
         cumulativeFrequencyOf |-> <<0, frequencyOf0>>]

\* BinaryRangeANSCoder(double probabilityOf1, int totalFrequencySpaceBits)
NewCoder(p, bits, frequencyOf0Unclipped) ==
    LET totalFrequency == Pow2(bits)
        frequencyOf0 == clip(frequencyOf0Unclipped, 1, totalFrequency - 1)
    IN  [constructed |-> TRUE,
         probabilityOf1 |-> p,
         totalFrequencySpaceBits |-> bits,
         totalFrequency |-> totalFrequency,
         frequencyOf |-> <<frequencyOf0, totalFrequency - frequencyOf0>>,
         cumulativeFrequencyOf |-> <<0, frequencyOf0>>]

AnsConstruct(p, bits) ==
    /\ ~coder.constructed
    /\ \E frequencyOf0 \in FrequencyOf0Outcomes(ProbabilityScale - p, Pow2(bits)) :
           coder' = NewCoder(p, bits, frequencyOf0)
    /\ UNCHANGED <<encoderStateTransitionTable, decoderStateTransitionTable, tableCall,
                   ansInputBitArray, outputBytes, ansEnc, encodedBytes, ansOutputBitArray,
                   ansDec>>
    /\ UNCHANGED notAnsVars

\* ------------------------------------------------------------------------
\* BinaryRangeANSCoder: state transitions and tables
\* ------------------------------------------------------------------------

\* uint64_t ComputeEncoderStateTransitionFor(uint64_t state, uint8_t symbol);
\* the symbol's frequency is not 0
EncoderTransitionDropsRemainder(c, state, symbol) ==
    LET symbolFrequency == c.frequencyOf[symbol + 1]
        symbolCumulativeFrequency == c.cumulativeFrequencyOf[symbol + 1]
        quotient == state \div symbolFrequency
    IN  (c.totalFrequency * quotient) + symbolCumulativeFrequency

ComputeEncoderStateTransitionFor(c, state, symbol) ==
    LET symbolFrequency == c.frequencyOf[symbol + 1]
        symbolCumulativeFrequency == c.cumulativeFrequencyOf[symbol + 1]
        quotient == state \div symbolFrequency
        remainder == state % symbolFrequency
    IN  (c.totalFrequency * quotient) + symbolCumulativeFrequency + remainder

\* A wrong decoder transition: the symbol's cumulative frequency is not
\* subtracted.
DecoderTransitionKeepsCumulative(c, state) ==
    LET quotient == state \div Pow2(c.totalFrequencySpaceBits)
        remainder == state % c.totalFrequency
        decodedSymbol == IF remainder < c.cumulativeFrequencyOf[2] THEN 0 ELSE 1
    IN  [state |-> (c.frequencyOf[decodedSymbol + 1] * quotient) + remainder,
         symbol |-> decodedSymbol]

\* StateAndSymbol ComputeDecoderStateTransitionFor(uint64_t state)
ComputeDecoderStateTransitionFor(c, state) ==
    LET quotient == state \div Pow2(c.totalFrequencySpaceBits)
        remainder == state % c.totalFrequency
        decodedSymbol == IF remainder < c.cumulativeFrequencyOf[2] THEN 0 ELSE 1
    IN  [state |-> (c.frequencyOf[decodedSymbol + 1] * quotient)
                       - c.cumulativeFrequencyOf[decodedSymbol + 1] + remainder,
         symbol |-> decodedSymbol]

\* std::vector::at(index): the element, or std::out_of_range
At(table, index) ==
    IF index < Len(table) THEN [threw |-> FALSE, value |-> table[index + 1]]
    ELSE [threw |-> TRUE, value |-> 0]

\* A lookup that does not check the index: an empty table answers 0.
UncheckedLookupEncoderStateTransitionFor(table, state, symbol) ==
    IF (state * 2) + symbol < Len(table)
    THEN [threw |-> FALSE, value |-> table[(state * 2) + symbol + 1]]
    ELSE [threw |-> FALSE, value |-> 0]

\* uint64_t LookupEncoderStateTransitionFor(uint64_t state, uint8_t symbol)
LookupEncoderStateTransitionFor(table, state, symbol) == At(table, (state * 2) + symbol)

\* StateAndSymbol LookupDecoderStateTransitionFor(uint64_t state)
LookupDecoderStateTransitionFor(table, state) == At(table, state)

\* The tables are built for coders of at most MaxTableBits range bits.
MaxTableBits == 2

\* A wrong table: the transitions of symbol 0 and of symbol 1 are stored in
\* the opposite order.
EncoderTableSwapped(c) ==
    LET stateCount == c.totalFrequency * 256
    IN  [i \in 1..(stateCount * 2) |->
            ComputeEncoderStateTransitionFor(c, (i - 1) \div 2, 1 - ((i - 1) % 2))]

\* The loop of GenerateEncoderStateTransitionTable: for every state value,
\* the following state for 0 and then the following state for 1
EncoderTable(c) ==
    LET stateCount == c.totalFrequency * 256
    IN  [i \in 1..(stateCount * 2) |->
            ComputeEncoderStateTransitionFor(c, (i - 1) \div 2, (i - 1) % 2)]

\* The loop of GenerateDecoderStateTransitionTable
DecoderTable(c) ==
    LET stateCount == c.totalFrequency * 256
    IN  [i \in 1..stateCount |-> ComputeDecoderStateTransitionFor(c, i - 1)]

NoTableCall == [op |-> "none", state |-> 0, symbol |-> 0, threw |-> FALSE, value |-> 0]

NoCodingCall ==
    /\ ansEnc.pc = "idle"
    /\ ansDec.pc = "idle"
    /\ tableCall.op = "none"

\* void GenerateEncoderStateTransitionTable().  With a symbol of frequency 0
\* the first computed transition divides by zero.
GenerateEncoderStateTransitionTable ==
    /\ coder.constructed
    /\ coder.totalFrequencySpaceBits <= MaxTableBits
    /\ NoCodingCall
    /\ Len(encoderStateTransitionTable) = 0
    /\ IF 0 \in {coder.frequencyOf[1], coder.frequencyOf[2]}
       THEN /\ tableCall' = [NoTableCall EXCEPT !.op = "divisionByZero"]
            /\ UNCHANGED encoderStateTransitionTable
       ELSE /\ encoderStateTransitionTable' = EncoderTable(coder)
            /\ UNCHANGED tableCall
    /\ UNCHANGED <<coder, decoderStateTransitionTable, ansInputBitArray, outputBytes,
                   ansEnc, encodedBytes, ansOutputBitArray, ansDec>>
    /\ UNCHANGED notAnsVars

\* void GenerateDecoderStateTransitionTable()
GenerateDecoderStateTransitionTable ==
    /\ coder.constructed
    /\ coder.totalFrequencySpaceBits <= MaxTableBits
    /\ NoCodingCall
    /\ Len(decoderStateTransitionTable) = 0
    /\ decoderStateTransitionTable' = DecoderTable(coder)
    /\ UNCHANGED <<coder, encoderStateTransitionTable, tableCall, ansInputBitArray,
                   outputBytes, ansEnc, encodedBytes, ansOutputBitArray, ansDec>>
    /\ UNCHANGED notAnsVars

\* The states the lookups are called with: the ends of the table, the
\* initial state of the encoder and the first state past the table.
LookupStates(c) ==
    IF c.constructed /\ c.totalFrequencySpaceBits <= MaxTableBits
    THEN { 0, 1, c.totalFrequency, (c.totalFrequency * 256) - 1, c.totalFrequency * 256 }
    ELSE {}

\* A call of LookupEncoderStateTransitionFor(state, symbol)
LookupEncoder(state, symbol) ==
    /\ coder.constructed
    /\ coder.totalFrequencySpaceBits <= MaxTableBits
    /\ NoCodingCall
    /\ LET result == LookupEncoderStateTransitionFor(encoderStateTransitionTable,
                                                     state, symbol)
       IN  tableCall' = [op |-> "LookupEncoder", state |-> state, symbol |-> symbol,
                         threw |-> result.threw, value |-> result.value]
    /\ UNCHANGED <<coder, encoderStateTransitionTable, decoderStateTransitionTable,
                   ansInputBitArray, outputBytes, ansEnc, encodedBytes, ansOutputBitArray,
                   ansDec>>
    /\ UNCHANGED notAnsVars

\* A call of LookupDecoderStateTransitionFor(state)
LookupDecoder(state) ==
    /\ coder.constructed
    /\ coder.totalFrequencySpaceBits <= MaxTableBits
    /\ NoCodingCall
    /\ LET result == LookupDecoderStateTransitionFor(decoderStateTransitionTable, state)
       IN  tableCall' = [op |-> "LookupDecoder", state |-> state,
                         symbol |-> IF result.threw THEN 0 ELSE result.value.symbol,
                         threw |-> result.threw,
                         value |-> IF result.threw THEN 0 ELSE result.value.state]
    /\ UNCHANGED <<coder, encoderStateTransitionTable, decoderStateTransitionTable,
                   ansInputBitArray, outputBytes, ansEnc, encodedBytes, ansOutputBitArray,
                   ansDec>>
    /\ UNCHANGED notAnsVars

\* ------------------------------------------------------------------------
\* BinaryRangeANSCoder::Encode
\* ------------------------------------------------------------------------

\* flushed holds the bytes flushed for the current symbol, in the order
\* flushed; symbolSteps holds, for each message position from readPosition + 1
\* on, the symbol encoded, the state after the flush loop, the state after
\* the transition and the bytes flushed.
NotAnsEncoding ==
    [pc |-> "idle", state |-> 0, readPosition |-> 0, symbol |-> 0,
     flushed |-> <<>>, symbolSteps |-> <<>>]

\* The call of Encode on a message, up to the first test of the loop:
\* state = totalFrequency, readPosition = BitLength() - 1.  Encode and
\* Decode never read the tables, so the calls are followed from a coder
\* whose tables were not built.
AnsEncodeBegin(message) ==
    /\ coder.constructed
    /\ NoCodingCall
    /\ Len(encoderStateTransitionTable) = 0
    /\ Len(decoderStateTransitionTable) = 0
    /\ ansInputBitArray' = BitArrayOf(message)
    /\ outputBytes' = <<>>
    /\ ansEnc' = [pc |-> "loop", state |-> coder.totalFrequency,
                  readPosition |-> Len(message) - 1, symbol |-> 0,
                  flushed |-> <<>>, symbolSteps |-> <<>>]
    /\ UNCHANGED <<coder, encoderStateTransitionTable, decoderStateTransitionTable,
                   tableCall, encodedBytes, ansOutputBitArray, ansDec>>
    /\ UNCHANGED notAnsVars

\* The loop takes the message bit at readPosition
AnsEncodeTakeBit ==
    /\ ansEnc.pc = "loop"
    /\ ansEnc.readPosition >= 0
    /\ ansEnc' = [ansEnc EXCEPT !.pc = "flush",
                                !.symbol = ReadBitAt(ansInputBitArray, ansEnc.readPosition),
                                !.flushed = <<>>]
    /\ UNCHANGED <<coder, encoderStateTransitionTable, decoderStateTransitionTable,
                   tableCall, ansInputBitArray, outputBytes, encodedBytes,
                   ansOutputBitArray, ansDec>>
    /\ UNCHANGED notAnsVars

\* A wrong threshold: the symbol's frequency times 128
FlushThresholdHalved(c, symbol) == c.frequencyOf[symbol + 1] * 128

\* A wrong threshold: the symbol's frequency, not times 256
FlushThresholdOfFrequency(c, symbol) == c.frequencyOf[symbol + 1]

\* The threshold of the flush loop
FlushThreshold(c, symbol) == c.frequencyOf[symbol + 1] * 256

\* One pass of while (state >= frequencyOf[symbol] * 256): the lowest byte of
\* the state is flushed.  With a frequency of 0 the test holds for every
\* state and the loop never ends.
AnsEncodeFlush ==
    /\ ansEnc.pc = "flush"
    /\ ansEnc.state >= FlushThreshold(coder, ansEnc.symbol)
    /\ IF FlushThreshold(coder, ansEnc.symbol) = 0
       THEN /\ ansEnc' = [ansEnc EXCEPT !.pc = "flushForever"]
            /\ UNCHANGED outputBytes
       ELSE /\ outputBytes' = Append(outputBytes, ansEnc.state % 256)
            /\ ansEnc' = [ansEnc EXCEPT
                             !.state = ansEnc.state \div 256,
                             !.flushed = Append(ansEnc.flushed, ansEnc.state % 256)]
    /\ UNCHANGED <<coder, encoderStateTransitionTable, decoderStateTransitionTable,
                   tableCall, ansInputBitArray, encodedBytes, ansOutputBitArray, ansDec>>
    /\ UNCHANGED notAnsVars

\* The flush loop ends and the state makes its transition for the symbol
AnsEncodeTransition ==
    /\ ansEnc.pc = "flush"
    /\ ansEnc.state < FlushThreshold(coder, ansEnc.symbol)
    /\ LET newState == ComputeEncoderStateTransitionFor(coder, ansEnc.state,
                                                        ansEnc.symbol)
       IN  ansEnc' = [ansEnc EXCEPT
                         !.pc = "loop",
                         !.state = newState,
                         !.readPosition = ansEnc.readPosition - 1,
                         !.symbolSteps = <<[symbol |-> ansEnc.symbol,
                                            flushedState |-> ansEnc.state,
                                            newState |-> newState,
                                            flushed |-> ansEnc.flushed]>>
                                             \o ansEnc.symbolSteps]
    /\ UNCHANGED <<coder, encoderStateTransitionTable, decoderStateTransitionTable,
                   tableCall, ansInputBitArray, outputBytes, encodedBytes,
                   ansOutputBitArray, ansDec>>
    /\ UNCHANGED notAnsVars

\* std::reverse
RECURSIVE Reverse(_)
Reverse(s) == IF s = <<>> THEN <<>> ELSE Append(Reverse(Tail(s)), Head(s))

\* The loop ends: the flushed bytes are reversed and the state is returned
AnsEncodeReturn ==
    /\ ansEnc.pc = "loop"
    /\ ansEnc.readPosition < 0
    /\ outputBytes' = Reverse(outputBytes)
    /\ ansEnc' = [ansEnc EXCEPT !.pc = "done"]
    /\ UNCHANGED <<coder, encoderStateTransitionTable, decoderStateTransitionTable,
                   tableCall, ansInputBitArray, encodedBytes, ansOutputBitArray, ansDec>>
    /\ UNCHANGED notAnsVars

\* ------------------------------------------------------------------------
\* BinaryRangeANSCoder::Decode
\* ------------------------------------------------------------------------

NoDecodedSymbol == [unflushed |-> <<>>, state |-> 0, symbol |-> 0, newState |-> 0]

\* unflushed holds the bytes read by the unflush loop since the last
\* transition, in the order read; decoded holds, for the last transition,
\* the bytes unflushed before it, the state it was applied to, the symbol
\* it emitted and the state it gave.  source tells whether the bytes and the
\* state came from Encode; reads holds the indices of the bytes read and
\* writes the positions of the bits written, in the order of the accesses.
NotAnsDecoding ==
    [pc |-> "idle", state |-> 0, readPosition |-> 0, writePosition |-> 0,
     unflushed |-> <<>>, decoded |-> NoDecodedSymbol,
     source |-> "none", reads |-> <<>>, writes |-> <<>>]

\* The call of Decode on the bytes and the final state of the finished
\* Encode, with a zeroed output of the message's bit length
AnsDecodeBegin ==
    /\ ansEnc.pc = "done"
    /\ ansDec.pc = "idle"
    /\ encodedBytes' = outputBytes
    /\ ansOutputBitArray' = ZeroBitArray(ansInputBitArray.bitLength)
    /\ ansDec' = [pc |-> "loop", state |-> ansEnc.state, readPosition |-> 0,
                  writePosition |-> 0, unflushed |-> <<>>, decoded |-> NoDecodedSymbol,
                  source |-> "encoder", reads |-> <<>>, writes |-> <<>>]
    /\ UNCHANGED <<coder, encoderStateTransitionTable, decoderStateTransitionTable,
                   tableCall, ansInputBitArray, outputBytes, ansEnc>>
    /\ UNCHANGED notAnsVars

\* Inputs of Decode that no call of Encode produced: every string of at
\* most MaxArbitraryBytes bytes of the values 0 and 255, initial states at
\* and around the total frequency and at the top of the model's integers,
\* and outputs of 0 and of MaxDecodedBits bits.
MaxArbitraryBytes == 2
MaxDecodedBits == 3

RECURSIVE ByteStrings(_)
ByteStrings(n) ==
    IF n = 0 THEN {<<>>}
    ELSE LET shorter == ByteStrings(n - 1)
         IN  shorter \cup { Append(b, v) : b \in { x \in shorter : Len(x) = n - 1 },
                                           v \in {0, 255} }

ArbitraryBytes == ByteStrings(MaxArbitraryBytes)

ArbitraryStates(c) ==
    { v \in { 0, c.totalFrequency - 1, c.totalFrequency, 2147483647 } : v >= 0 }

\* The call of Decode on bytes and a state that no call of Encode produced,
\* with a zeroed output of outputBitLength bits
AnsDecodeArbitrary(bytes, state, outputBitLength) ==
    /\ coder.constructed
    /\ NoCodingCall
    /\ Len(encoderStateTransitionTable) = 0
    /\ Len(decoderStateTransitionTable) = 0
    /\ encodedBytes' = bytes
    /\ ansOutputBitArray' = ZeroBitArray(outputBitLength)
    /\ ansDec' = [pc |-> "loop", state |-> state, readPosition |-> 0,
                  writePosition |-> 0, unflushed |-> <<>>, decoded |-> NoDecodedSymbol,
                  source |-> "arbitrary", reads |-> <<>>, writes |-> <<>>]
    /\ UNCHANGED <<coder, encoderStateTransitionTable, decoderStateTransitionTable,
                   tableCall, ansInputBitArray, outputBytes, ansEnc>>
    /\ UNCHANGED notAnsVars

\* A wrong test: the read position is not compared with the byte count
MustUnflushUnbounded == ansDec.state < coder.totalFrequency

\* A wrong test: the state is compared with the frequency of symbol 0
MustUnflushBelowFrequency ==
    /\ ansDec.state < coder.frequencyOf[1]
    /\ ansDec.readPosition < Len(encodedBytes)

\* The test of the unflush loop
MustUnflush ==
    /\ ansDec.state < coder.totalFrequency
    /\ ansDec.readPosition < Len(encodedBytes)

\* One pass of the unflush loop: a byte is read into the state.  Reading
\* a byte that the input does not hold is a read outside the caller's
\* buffer.
AnsDecodeUnflush ==
    /\ ansDec.pc = "loop"
    /\ ansDec.writePosition < ansOutputBitArray.bitLength
    /\ MustUnflush
    /\ ansDec' = IF ansDec.readPosition >= Len(encodedBytes)
                 THEN [ansDec EXCEPT !.pc = "readPastEnd",
                                     !.reads = Append(ansDec.reads, ansDec.readPosition)]
                 ELSE [ansDec EXCEPT
                          !.state = (ansDec.state * 256)
                                        + encodedBytes[ansDec.readPosition + 1],
                          !.readPosition = ansDec.readPosition + 1,
                          !.unflushed = Append(ansDec.unflushed,
                                               encodedBytes[ansDec.readPosition + 1]),
                          !.reads = Append(ansDec.reads, ansDec.readPosition)]
    /\ UNCHANGED <<coder, encoderStateTransitionTable, decoderStateTransitionTable,
                   tableCall, ansInputBitArray, outputBytes, ansEnc, encodedBytes,
                   ansOutputBitArray>>
    /\ UNCHANGED notAnsVars

\* The unflush loop ends: the state makes its transition and the decoded
\* symbol is written at writePosition
AnsDecodeSymbol ==
    /\ ansDec.pc = "loop"
    /\ ansDec.writePosition < ansOutputBitArray.bitLength
    /\ ~MustUnflush
    /\ LET stateTransitionResult == ComputeDecoderStateTransitionFor(coder, ansDec.state)
       IN  /\ ansDec' = [ansDec EXCEPT
                             !.state = stateTransitionResult.state,
                             !.writePosition = ansDec.writePosition + 1,
                             !.unflushed = <<>>,
                             !.writes = Append(ansDec.writes, ansDec.writePosition),
                             !.decoded = [unflushed |-> ansDec.unflushed,
                                          state |-> ansDec.state,
                                          symbol |-> stateTransitionResult.symbol,
                                          newState |-> stateTransitionResult.state]]
           /\ ansOutputBitArray' = WriteBitAt(ansOutputBitArray, ansDec.writePosition,
                                              stateTransitionResult.symbol)
    /\ UNCHANGED <<coder, encoderStateTransitionTable, decoderStateTransitionTable,
                   tableCall, ansInputBitArray, outputBytes, ansEnc, encodedBytes>>
    /\ UNCHANGED notAnsVars

\* The loop ends and Decode returns
AnsDecodeReturn ==
    /\ ansDec.pc = "loop"
    /\ ansDec.writePosition >= ansOutputBitArray.bitLength
    /\ ansDec' = [ansDec EXCEPT !.pc = "done"]
    /\ UNCHANGED <<coder, encoderStateTransitionTable, decoderStateTransitionTable,
                   tableCall, ansInputBitArray, outputBytes, ansEnc, encodedBytes,
                   ansOutputBitArray>>
    /\ UNCHANGED notAnsVars

AnsInit ==
    /\ coder = NoCoder
    /\ encoderStateTransitionTable = <<>>
    /\ decoderStateTransitionTable = <<>>
    /\ tableCall = NoTableCall
    /\ ansInputBitArray = ZeroBitArray(0)
    /\ outputBytes = <<>>
    /\ ansEnc = NotAnsEncoding
    /\ encodedBytes = <<>>
    /\ ansOutputBitArray = ZeroBitArray(0)
    /\ ansDec = NotAnsDecoding

NextANS ==
    \/ \E p \in Probabilities, bits \in RangeBitWidths : AnsConstruct(p, bits)
    \/ GenerateEncoderStateTransitionTable
    \/ GenerateDecoderStateTransitionTable
    \/ \E state \in LookupStates(coder), symbol \in {0, 1} : LookupEncoder(state, symbol)
    \/ \E state \in LookupStates(coder) : LookupDecoder(state)
    \/ \E message \in Messages : AnsEncodeBegin(message)
    \/ AnsEncodeTakeBit
    \/ AnsEncodeFlush
    \/ AnsEncodeTransition
    \/ AnsEncodeReturn
    \/ AnsDecodeBegin
    \/ /\ coder.constructed
       /\ NoCodingCall
       /\ \E bytes \in ArbitraryBytes, state \in ArbitraryStates(coder),
             outputBitLength \in {0, MaxDecodedBits} :
              AnsDecodeArbitrary(bytes, state, outputBitLength)
    \/ AnsDecodeUnflush
    \/ AnsDecodeSymbol
    \/ AnsDecodeReturn


\* ------------------------------------------------------------------------
\* Specifications
\* ------------------------------------------------------------------------

Init ==
    DivInit /\ BacInit /\ AnsInit /\ FracInit /\ BitInit /\ StreamInit /\ Div32Init

\* The division object and the calls made on it
SpecDivision == Init /\ [][NextDivision]_vars

\* The arithmetic coder: calls of Encode and Decode, step by step
SpecBAC == Init /\ [][NextBAC]_vars

\* The range ANS coder: its construction, its tables and the calls of Encode
\* and Decode, step by step
SpecANS == Init /\ [][NextANS]_vars

\* The multiplier by a fraction and the calls made on it
SpecFraction == Init /\ [][NextFraction]_vars

\* A BitArray over a buffer and the calls made on it
SpecBitArray == Init /\ [][NextBitArray]_vars

\* An OutputBitStream and the calls made on it
SpecStream == Init /\ [][NextStream]_vars

\* The 32-bit division object and the calls made on it
SpecDivision32 == Init /\ [][NextDivision32]_vars


\* ------------------------------------------------------------------------
\* Properties of the fast division
\* ------------------------------------------------------------------------

DivisionCallInRange ==
    /\ divCall.op \in {"Divide", "DivideAndGetRemainder"}
    /\ divisor # Word(0, 4)
    /\ FitsInt(divCall.numerator)

\* C3: for a divisor d in [1, 2^31 - 1] and a numerator n in [0, 2^31),
\* Divide(n) returns floor(n / d) and DivideAndGetRemainder(n) returns
\* floor(n / d) and n mod d; for d = 7 and n = 2147483646 the result is
\* (306783378, 0).
FastDivisionExact ==
    DivisionCallInRange =>
        LET n == WordValue(divCall.numerator)
            d == WordValue(divisor)
        IN  /\ divCall.quotient = Word(n \div d, 4)
            /\ divCall.op = "DivideAndGetRemainder" =>
                   divCall.remainder = Word(n % d, 4)
            /\ (d = 7 /\ n = 2147483646 /\ divCall.op = "DivideAndGetRemainder") =>
                   /\ divCall.quotient = Word(306783378, 4)
                   /\ divCall.remainder = Word(0, 4)

\* The documented example has been computed.
FastDivisionExactWitness ==
    /\ divCall.op = "DivideAndGetRemainder"
    /\ divisor = Word(7, 4)
    /\ divCall.numerator = Word(2147483646, 4)
    /\ divCall.quotient = Word(306783378, 4)


\* w = ceil(log2 d): the least w with 2^w >= d, for d in [1, 2^31)
IsCeilingLog2(w, d) ==
    /\ w \in 0..31
    /\ ~Less(WordPow2(w, 8), Word(d, 8))
    /\ w > 0 => Less(WordPow2(w - 1, 8), Word(d, 8))

\* m = ceil(2^shift / d), for m * d below 2^64
IsCeilingOfPowerOver(m, shift, d) ==
    /\ Less(m, WrapAdd(WordPow2(33, 8), Word(1, 8), 8))
    /\ ~Less(WrapMul(m, Word(d, 8), 8), WordPow2(shift, 8))
    /\ Less(WrapMul(WrapSub(m, Word(1, 8), 8), Word(d, 8), 8), WordPow2(shift, 8))

\* C28: for every divisor d in [1, 2^31), the powers of two and 1
\* included, the constructed object has shiftAmount = 32 + w with
\* w = ceil(log2 d) = bit_width(d - 1) (0 for d <= 1) and
\* multiplier = ceil(2^shiftAmount / d) = floor((2^shiftAmount + d - 1) / d);
\* 2^shiftAmount + d - 1 and n * multiplier for every n < 2^31 are below
\* 2^64.
FastDivisionDescriptor ==
    divisor # Word(0, 4) =>
        LET d == WordValue(divisor)
            w == shiftAmount - 32
        IN  /\ IsCeilingLog2(w, d)
            /\ w = (IF d <= 1 THEN 0 ELSE BitWidth(d - 1))
            /\ IsCeilingOfPowerOver(multiplier, shiftAmount, d)
            /\ multiplier = WordDiv(WrapAdd(WordPow2(shiftAmount, 8), Word(d - 1, 8), 8), d)
            /\ shiftAmount <= 63
            /\ Less(WrapAdd(WordPow2(shiftAmount, 16), Word(d - 1, 16), 16),
                    WordPow2(64, 16))
            /\ Less(WrapMul(Word(2147483647, 16), Resize(multiplier, 16), 16),
                    WordPow2(64, 16))

\* The object has been constructed for the power of two 2^30.
FastDivisionDescriptorWitness ==
    /\ divCall.op = "constructed"
    /\ divisor = Word(1073741824, 4)
    /\ shiftAmount = 62
    /\ multiplier = WordPow2(32, 8)

\* C29: a divisor of 0 raises no error and stores multiplier = 0 and
\* shiftAmount = 0, so that Divide(n) returns 0 and DivideAndGetRemainder(n)
\* returns (0, n) for every n; a divisor of 2^31 or more is rejected with
\* an error.
FastDivisionOutOfDomain ==
    /\ divCall.op = "threw" => ~Less(divCall.argument, WordPow2(31, 4))
    /\ divCall.op # "threw" =>
           /\ divisor = divCall.argument
           /\ Less(divisor, WordPow2(31, 4))
    /\ divisor = Word(0, 4) =>
           /\ multiplier = Word(0, 8)
           /\ shiftAmount = 0
           /\ divCall.op \in {"Divide", "DivideAndGetRemainder"} =>
                  divCall.quotient = Word(0, 4)
           /\ divCall.op = "DivideAndGetRemainder" =>
                  divCall.remainder = divCall.numerator

\* An object constructed with the divisor 0 has been asked for the quotient
\* and the remainder of 2^32 - 1.
FastDivisionOutOfDomainWitness ==
    /\ divCall.op = "DivideAndGetRemainder"
    /\ divisor = Word(0, 4)
    /\ divCall.numerator = <<255, 255, 255, 255>>
    /\ divCall.remainder = <<255, 255, 255, 255>>

\* ------------------------------------------------------------------------
\* Properties of the binary arithmetic coder
\* ------------------------------------------------------------------------

Encoding == enc.pc \in {"loop", "normalize"}
Decoding == dec.pc \in {"loop", "normalize"}

\* C1: decoding the stream that Encode appended for a message, with the
\* same probability and a zero-initialized output of the message's length,
\* writes exactly the message.
BacRoundTrip ==
    (dec.pc = "done" /\ dec.source = "encoder") => outputBitArray = inputBitArray

\* The one-bit message 1 at probability 0.5 has been encoded and decoded.
BacRoundTripWitness ==
    /\ dec.pc = "done"
    /\ dec.source = "encoder"
    /\ inputBitArray = BitArrayOf(<<1>>)
    /\ enc.argProbabilityOf1 = 500000000
    /\ outputBitArray.bytes = <<1>>

\* C5: until finalization the interval of the encoder and of the decoder
\* has low < high, for every probability, those clipped from 0 and 1
\* included.
BacIntervalNonEmpty ==
    /\ Encoding => Less(enc.low, enc.high)
    /\ Decoding => Less(dec.low, dec.high)

\* A message of three 1s is being encoded with probabilityOf1 = 0, clipped
\* to 1e-9, and the interval is being renormalized.
BacIntervalNonEmptyWitness ==
    /\ enc.pc = "normalize"
    /\ enc.argProbabilityOf1 = 0
    /\ enc.probabilityOf1 = probabilityEpsilon
    /\ enc.readPosition = 2
    /\ inputBitArray = BitArrayOf(<<1, 1, 1>>)
    /\ enc.normalizeSteps >= 20

\* C7: every call of Encode and of Decode returns, whatever the encoded
\* input: no normalization loop runs more than totalRangeBitWidth times,
\* the positions never pass the ends of their arrays, Decode reads no bit
\* that its input does not hold, raises no error, and returns having
\* written exactly the requested number of bits.
BacTerminates ==
    /\ enc.normalizeSteps <= totalRangeBitWidth
    /\ dec.normalizeSteps <= totalRangeBitWidth
    /\ enc.readPosition <= inputBitArray.bitLength
    /\ dec.readPosition <= encodedBitArray.bitLength
    /\ dec.writePosition <= outputBitArray.bitLength
    /\ dec.pc \notin {"threw", "readPastEnd"}
    /\ dec.pc = "done" => dec.writePosition = outputBitArray.bitLength

\* Decode has returned four bits from an input of three bits that no
\* encoder produced.
BacTerminatesWitness ==
    /\ dec.pc = "done"
    /\ dec.source = "arbitrary"
    /\ encodedBitArray = BitArrayOf(<<1, 0, 1>>)
    /\ outputBitArray.bitLength = 4
    /\ dec.writePosition = 4
    /\ dec.readPosition = 3

\* The probability the claims say a given probabilityOf1 behaves as
ClampedProbability(p) ==
    IF p < probabilityEpsilon THEN probabilityEpsilon
    ELSE IF p > ProbabilityScale - probabilityEpsilon
         THEN ProbabilityScale - probabilityEpsilon
    ELSE p

\* The multiplier built from the clamped probability of 0, for each of the
\* probabilities given to Encode and Decode
ClampedMultiplier ==
    [p \in Probabilities |->
        ScaledMultiplier(ProbabilityScale - ClampedProbability(p))]

\* C12: whatever probabilityOf1 is given, Encode and Decode do not throw:
\* the fraction multiplier is constructed from a fraction in [0, 1]; a
\* probability below 1e-9 sets the coder up exactly as 1e-9 does and a
\* probability above 1 - 1e-9 exactly as 1 - 1e-9 does.
BacProbabilityClamped ==
    /\ enc.pc # "threw"
    /\ dec.pc # "threw"
    /\ enc.pc # "idle" =>
           /\ enc.probabilityOf1 = ClampedProbability(enc.argProbabilityOf1)
           /\ ~FractionRejected(ProbabilityScale - enc.probabilityOf1)
           /\ enc.scaledMultiplier = ClampedMultiplier[enc.argProbabilityOf1]
    /\ dec.pc # "idle" =>
           /\ dec.probabilityOf1 = ClampedProbability(dec.argProbabilityOf1)
           /\ ~FractionRejected(ProbabilityScale - dec.probabilityOf1)
           /\ dec.scaledMultiplier = ClampedMultiplier[dec.argProbabilityOf1]

BacProbabilityClampedWitness ==
    /\ enc.pc = "done"
    /\ enc.argProbabilityOf1 = 1500000000
    /\ enc.probabilityOf1 = 999999999
    /\ inputBitArray.bitLength = 3
    /\ dec.pc = "done"
    /\ dec.argProbabilityOf1 = 1500000000


\* C16: encoding 1000 zero bits with probabilityOf1 = 0.01 appends at most
\* 20 bits to the output stream.
BacSkewedOutputLength ==
    (enc.pc # "idle" /\ inputBitArray.bitLength = SkewedInputBits
        /\ enc.argProbabilityOf1 = SkewedProbabilityOf1
        /\ inputBitArray = ZeroBitArray(SkewedInputBits))
        => /\ outputBitStream.bitLength <= 20
           /\ enc.pc = "done" => outputBitStream.bitLength >= 1

BacSkewedOutputLengthWitness ==
    /\ enc.pc = "done"
    /\ enc.readPosition = SkewedInputBits
    /\ inputBitArray = ZeroBitArray(SkewedInputBits)
    /\ enc.argProbabilityOf1 = SkewedProbabilityOf1
    /\ outputBitStream.bitLength >= 14

\* C17: encoding the 10-bit input 1010101010 with probabilityOf1 = 0.5
\* produces a non-empty stream of at most 12 bits, and decoding it with
\* N = 10 returns the same 10 bits.
BacAlternatingOutputLength ==
    (enc.pc = "done" /\ inputBitArray.bitLength = Len(AlternatingInput)
        /\ enc.argProbabilityOf1 = ProbabilityScale \div 2
        /\ inputBitArray = BitArrayOf(AlternatingInput))
        => /\ outputBitStream.bitLength >= 1
           /\ outputBitStream.bitLength <= Len(AlternatingInput) + 2
           /\ dec.pc = "done" =>
                  /\ outputBitArray.bitLength = Len(AlternatingInput)
                  /\ \A i \in 1..Len(AlternatingInput) :
                         ReadBitAt(outputBitArray, i - 1) = AlternatingInput[i]

BacAlternatingOutputLengthWitness ==
    /\ enc.pc = "done"
    /\ inputBitArray = BitArrayOf(AlternatingInput)
    /\ enc.argProbabilityOf1 = ProbabilityScale \div 2
    /\ dec.pc = "done"
    /\ dec.source = "encoder"
    /\ dec.writePosition = Len(AlternatingInput)


\* C18: the bits Encode appends depend only on the input bits and the
\* probability, whatever the stream held before and whatever lies in the
\* input buffer past the bit length; the bits Decode writes into a
\* zero-initialized output depend only on the encoded bits, the output
\* length and the probability.
BacDeterministic ==
    /\ enc.repeat => enc.pc # "threw"
    /\ (enc.repeat /\ enc.pc = "done") =>
           /\ BitsFrom(outputBitStream, enc.start) = enc.previous
           /\ \A i \in 0..(enc.start - 1) :
                  ReadBitAt(outputBitStream, i) = ReadBitAt(OtherStream, i)
    /\ dec.repeat => dec.pc \notin {"threw", "readPastEnd"}
    /\ (dec.repeat /\ dec.pc = "done") => BitsFrom(outputBitArray, 0) = dec.previous

\* An input of three bits that no encoder produced has been decoded a
\* second time, from a buffer with other padding, into bits of both values.
BacDeterministicWitness ==
    /\ dec.repeat
    /\ dec.pc = "done"
    /\ dec.source = "arbitrary"
    /\ encodedBitArray.bytes = <<253, 255>>
    /\ encodedBitArray.bitLength = 3
    /\ 1 \in {dec.previous[i] : i \in 1..Len(dec.previous)}
    /\ 0 \in {dec.previous[i] : i \in 1..Len(dec.previous)}

\* C22: when Decode runs on the stream that Encode produced for a message,
\* with the same probability, the interval of the decoder after it has
\* decoded and renormalized k symbols is the interval of the encoder after
\* it encoded and renormalized the first k symbols of the message, for
\* every k up to the message length, and before every symbol decision
\* low <= value < high (the bits past the end of the stream read as 0).
BacSynchronized ==
    (dec.source = "encoder" /\ dec.pc = "loop") =>
        /\ dec.writePosition <= Len(enc.intervals)
        /\ dec.low = (IF dec.writePosition = 0 THEN Resize(lowest, 4)
                      ELSE enc.intervals[dec.writePosition].low)
        /\ dec.high = (IF dec.writePosition = 0 THEN InitialHigh
                       ELSE enc.intervals[dec.writePosition].high)
        /\ dec.writePosition < outputBitArray.bitLength =>
               /\ ~Less(dec.value, dec.low)
               /\ Less(dec.value, dec.high)

\* The decoder is about to decide the fourth symbol of 1011 at probability
\* 0.3, having read every bit of the stream.
BacSynchronizedWitness ==
    /\ dec.source = "encoder"
    /\ dec.pc = "loop"
    /\ dec.writePosition = 3
    /\ inputBitArray = BitArrayOf(<<1, 0, 1, 1>>)
    /\ enc.argProbabilityOf1 = 300000000
    /\ dec.readPosition = encodedBitArray.bitLength
    /\ dec.low # Resize(lowest, 4)

\* The bits that a step appends to the output stream
AppendedBits == BitsFrom(outputBitStream', outputBitStream.bitLength)

\* A bit followed by count bits of the opposite value
BitThenOpposite(bit, count) == <<bit>> \o [i \in 1..count |-> 1 - bit]

\* C23: in the normalization loop of Encode the cases are tested in the
\* order E1 (high < HALF), E2 (low >= HALF), E3 (low >= Q1 and high < Q3)
\* and the loop goes on until none applies.  Every E1 step appends a 0
\* followed by exactly pendingBitCount 1s and every E2 step a 1 followed by
\* exactly pendingBitCount 0s, and both reset pendingBitCount to 0; every E3
\* step appends nothing and adds 1 to pendingBitCount.
BacPendingBitOrder ==
    [][(enc.pc = "normalize" /\ enc' # enc) =>
          /\ \A i \in 0..(outputBitStream.bitLength - 1) :
                 ReadBitAt(outputBitStream', i) = ReadBitAt(outputBitStream, i)
          /\ IF Less(enc.high, halfRange)
             THEN /\ enc'.pc = "normalize"
                  /\ AppendedBits = BitThenOpposite(0, enc.pendingBitCount)
                  /\ enc'.pendingBitCount = 0
             ELSE IF ~Less(enc.low, halfRange)
             THEN /\ enc'.pc = "normalize"
                  /\ AppendedBits = BitThenOpposite(1, enc.pendingBitCount)
                  /\ enc'.pendingBitCount = 0
             ELSE IF ~Less(enc.low, quarterRange) /\ Less(enc.high, threeQuartersRange)
             THEN /\ enc'.pc = "normalize"
                  /\ AppendedBits = <<>>
                  /\ enc'.pendingBitCount = enc.pendingBitCount + 1
             ELSE /\ enc'.pc = "loop"
                  /\ AppendedBits = <<>>
                  /\ enc'.pendingBitCount = enc.pendingBitCount]_vars

\* An E1 step is about to resolve two pending bits that E3 steps have
\* counted, after earlier steps have appended bits.
BacPendingBitOrderWitness ==
    /\ enc.pc = "normalize"
    /\ enc.pendingBitCount >= 2
    /\ Less(enc.high, halfRange)
    /\ outputBitStream.bitLength >= 1

\* The number of bits the current call of Encode has appended
AppendedBitCount == outputBitStream.bitLength - enc.start

\* C24: throughout Encode the number of bits appended so far plus
\* pendingBitCount is the number of normalization steps (E1, E2 and E3) so
\* far; the finalization appends exactly pendingBitCount + 2 bits, one
\* definitive bit (0 exactly when low < Q1) followed by pendingBitCount + 1
\* bits of the opposite value, so the output has as many bits as there were
\* normalization steps plus 2, and at least 2 even for an empty input.
BacOutputAccounting ==
    /\ Encoding => AppendedBitCount + enc.pendingBitCount = enc.renormalizations
    /\ enc.pc = "done" =>
           /\ AppendedBitCount = enc.renormalizations + 2
           /\ AppendedBitCount >= 2
           /\ BitsFrom(outputBitStream,
                       outputBitStream.bitLength - (enc.finalPendingBitCount + 2))
                  = BitThenOpposite(IF Less(enc.low, quarterRange) THEN 0 ELSE 1,
                                    enc.finalPendingBitCount + 1)
           /\ inputBitArray.bitLength = 0 =>
                  BitsFrom(outputBitStream, enc.start) = <<0, 1>>

\* Encode has returned after normalization steps of which the last two or
\* more left pending bits to the finalization.
BacOutputAccountingWitness ==
    /\ enc.pc = "done"
    /\ enc.finalPendingBitCount >= 2
    /\ enc.renormalizations >= 4
    /\ inputBitArray.bitLength >= 2

\* x * 2 computed without wrapping is a uint32_t: x < 2^31
DoubleFits(x) == Less(x, halfRange)

\* (x - offset) * 2 computed without wrapping is in [0, 2^32 - 1]
ShiftAndScaleFits(x, offset) ==
    /\ ~Less(x, offset)
    /\ DoubleFits(WrapSub(Resize(x, 8), offset, 8))

\* The normalization step that (low, high) selects wraps for none of xs
NormalizationFits(low, high, xs) ==
    /\ InLowerHalf(low, high) => \A x \in xs : DoubleFits(x)
    /\ InUpperHalf(low, high) => \A x \in xs : ShiftAndScaleFits(x, halfRange)
    /\ InMiddleHalf(low, high) => \A x \in xs : ShiftAndScaleFits(x, quarterRange)

\* The narrowing of [low, high] does not wrap and its boundary is inside
NarrowingFits(low, high, scaledMultiplier) ==
    LET intervalLength == WrapSub(high, low, 4)
        lowerSubintervalLength == Multiply(scaledMultiplier, intervalLength)
        boundary == WrapAdd(Resize(low, 8), Resize(lowerSubintervalLength, 8), 8)
    IN  /\ ~Less(high, low)
        /\ Less(boundary, highest)
        /\ ~Less(boundary, low)
        /\ ~Less(high, boundary)

\* C25: with the initial interval [0, 2^32 - 1], in every state of Encode
\* and in every state of Decode on a stream that Encode produced, low * 2,
\* high * 2, (x - HALF) * 2 and (x - Q1) * 2 for x among low, high and
\* value, and low + lowerSubintervalLength stay in [0, 2^32 - 1] where they
\* are computed, and low <= boundary <= high.
BacNeverWraps ==
    /\ enc.pc = "normalize" =>
           NormalizationFits(enc.low, enc.high, {enc.low, enc.high})
    /\ (enc.pc = "loop" /\ enc.readPosition < inputBitArray.bitLength) =>
           NarrowingFits(enc.low, enc.high, enc.scaledMultiplier)
    /\ (dec.source = "encoder" /\ dec.pc = "normalize") =>
           NormalizationFits(dec.low, dec.high, {dec.low, dec.high, dec.value})
    /\ (dec.source = "encoder" /\ dec.pc = "loop"
            /\ dec.writePosition < outputBitArray.bitLength) =>
           NarrowingFits(dec.low, dec.high, dec.scaledMultiplier)

\* The decoder of an encoder's stream is about to take an E3 step with
\* low, value and high all different.
BacNeverWrapsWitness ==
    /\ dec.source = "encoder"
    /\ dec.pc = "normalize"
    /\ InMiddleHalf(dec.low, dec.high)
    /\ Less(dec.low, dec.value)
    /\ dec.normalizeSteps >= 1

\* The interval a normalization loop may leave: it straddles HALF and is
\* not inside the middle half
Straddling(low, high) ==
    /\ Less(low, halfRange)
    /\ ~Less(high, halfRange)
    /\ Less(low, quarterRange) \/ ~Less(high, threeQuartersRange)

\* An interval longer than Q1 whose boundary leaves both sub-intervals
\* non-empty
WideEnough(low, high, scaledMultiplier) ==
    LET boundary == Boundary(low, high, scaledMultiplier)
    IN  /\ Less(low, high)
        /\ Less(quarterRange, WrapSub(high, low, 4))
        /\ Less(low, boundary)
        /\ Less(boundary, high)

\* C26: whenever the normalization loop of Encode or of Decode exits,
\* low < HALF <= high and (low < Q1 or high >= Q3); hence at the start of
\* every narrowing step high - low > Q1 = 2^30, and both sub-intervals are
\* non-empty for every clamped probability.
BacNormalizedInterval ==
    /\ (enc.pc = "loop" /\ enc.readPosition >= 1) => Straddling(enc.low, enc.high)
    /\ (dec.pc = "loop" /\ dec.writePosition >= 1) => Straddling(dec.low, dec.high)
    /\ (enc.pc = "loop" /\ enc.readPosition < inputBitArray.bitLength) =>
           WideEnough(enc.low, enc.high, enc.scaledMultiplier)
    /\ (dec.pc = "loop" /\ dec.writePosition < outputBitArray.bitLength) =>
           WideEnough(dec.low, dec.high, dec.scaledMultiplier)

\* Encode is about to narrow an interval that normalization steps left
\* with low >= Q1, at the smallest clamped probability of 1.
BacNormalizedIntervalWitness ==
    /\ enc.pc = "loop"
    /\ enc.readPosition >= 1
    /\ enc.readPosition < inputBitArray.bitLength
    /\ enc.renormalizations >= 1
    /\ ~Less(enc.low, quarterRange)
    /\ enc.probabilityOf1 = probabilityEpsilon

\* Decode has set up its locals and decided no symbol yet
DecodeInitialized == dec.pc = "loop" /\ dec.writePosition = 0

\* C27: for an encoded stream of M bits Decode initializes value to the
\* first min(M, 32) bits of the stream, the first one most significant,
\* followed by 32 - min(M, 32) zero bits, and readPosition to min(M, 32);
\* for M = 0 value is 0, and for M >= 32 value is the first 32 bits.
BacValueInitialized ==
    DecodeInitialized =>
        LET M == encodedBitArray.bitLength
            initialBitCount == IF M < 32 THEN M ELSE 32
        IN  /\ dec.readPosition = initialBitCount
            /\ \A i \in 0..31 :
                   WordBit(dec.value, 31 - i) =
                       IF i < initialBitCount THEN ReadBitAt(encodedBitArray, i) ELSE 0
            /\ M = 0 => dec.value = Word(0, 4)

\* Decode has been set up on an encoder's stream of more than 32 bits
\* whose first 32 bits hold both values.
BacValueInitializedWitness ==
    /\ DecodeInitialized
    /\ dec.source = "encoder"
    /\ encodedBitArray.bitLength > 32
    /\ dec.value # Word(0, 4)
    /\ dec.value # <<255, 255, 255, 255>>

\* ------------------------------------------------------------------------
\* Properties of the range ANS coder
\* ------------------------------------------------------------------------

\* probabilityOf1 in [0, 1] and a range bit width in [2, 23]
ValidConfiguration(c) ==
    /\ c.constructed
    /\ c.probabilityOf1 \in 0..ProbabilityScale
    /\ c.totalFrequencySpaceBits \in 2..23

\* C2: for a coder of a valid (p, R), Decode given the bytes and the final
\* state returned by Encode of a message, and a zeroed output array of the
\* message's length, writes exactly the message.
AnsRoundTrip ==
    (ValidConfiguration(coder) /\ ansDec.pc = "done" /\ ansDec.source = "encoder")
        => ansOutputBitArray = ansInputBitArray

AnsRoundTripWitness ==
    /\ ValidConfiguration(coder)
    /\ coder.probabilityOf1 = 10000000
    /\ coder.totalFrequencySpaceBits = 3
    /\ ansDec.pc = "done"
    /\ ansInputBitArray = BitArrayOf(<<1, 0, 1, 1>>)
    /\ Len(encodedBytes) >= 1
    /\ ansDec.readPosition = Len(encodedBytes)

\* The bytes of the encoded stream that Decode has not read
UnreadBytes == SubSeq(encodedBytes, ansDec.readPosition + 1, Len(encodedBytes))

\* For the last decode transition, step j = writePosition - 1: the state it
\* was applied to is the encoder's state after it encoded m[j], it emitted
\* m[j] and gave the encoder's state after the flush loop for m[j]; the
\* bytes unflushed before it are none for j = 0 and, for j >= 1, the bytes
\* flushed while m[j - 1] was encoded, last flushed first.
ReplaysEncoder ==
    LET j == ansDec.writePosition - 1
        step == ansEnc.symbolSteps[j + 1]
    IN  /\ Len(ansEnc.symbolSteps) = ansInputBitArray.bitLength
        /\ step.symbol = ReadBitAt(ansInputBitArray, j)
        /\ ansDec.decoded.state = step.newState
        /\ ansDec.decoded.symbol = step.symbol
        /\ ansDec.decoded.newState = step.flushedState
        /\ ansDec.decoded.unflushed =
               IF j = 0 THEN <<>> ELSE Reverse(ansEnc.symbolSteps[j].flushed)

\* C19 (as amended): when Decode runs on the bytes and final state of
\* Encode for a message m of N bits under a valid (p, R), then for every j
\* in 0..N-1 the decoder's state before its j-th transition is the
\* encoder's state after it encoded m[j], the transition emits m[j] and
\* gives the encoder's state after the flush loop for m[j], and for j up
\* to N-2 the bytes unflushed before step j+1 are the bytes flushed while
\* m[j] was encoded, in the order of the stream; the bytes flushed while
\* m[N-1] was encoded stay unread at the end of the stream.
AnsStateReplay ==
    (ValidConfiguration(coder) /\ ansDec.pc # "idle" /\ ansDec.source = "encoder") =>
        /\ ansDec.writePosition >= 1 => ReplaysEncoder
        /\ (ansDec.pc = "done" /\ ansInputBitArray.bitLength >= 1) =>
               UnreadBytes =
                   Reverse(ansEnc.symbolSteps[ansInputBitArray.bitLength].flushed)

\* Over a coder of R = 3, Decode has made a transition on a state that it
\* rebuilt from a byte of the stream, for a symbol after the first of the
\* message 1,0,1,1.
AnsStateReplayWitness ==
    /\ ValidConfiguration(coder)
    /\ coder.totalFrequencySpaceBits = 3
    /\ ansInputBitArray = BitArrayOf(<<1, 0, 1, 1>>)
    /\ ansDec.pc = "loop"
    /\ ansDec.writePosition >= 2
    /\ Len(ansDec.decoded.unflushed) >= 1
    /\ ReplaysEncoder

\* C19 as stated, for every j in 0..N-1: also the bytes flushed while
\* m[N-1] was encoded are unflushed by the decoder.
AnsStateReplayOfEveryByte ==
    (ValidConfiguration(coder) /\ ansDec.pc # "idle" /\ ansDec.source = "encoder") =>
        /\ ansDec.writePosition >= 1 => ReplaysEncoder
        /\ ansDec.pc = "done" => UnreadBytes = <<>>

\* C4: in Encode with a valid (p, R) the state starts at totalFrequency and
\* after every symbol step (the flush loop followed by the transition) lies
\* in [totalFrequency, totalFrequency * 256); so does the returned state,
\* which is totalFrequency with no bytes for the empty message; no state
\* exceeds 2^31 - 1.
AnsEncoderStateBounds ==
    ValidConfiguration(coder) =>
        /\ ansEnc.pc \in {"loop", "done"} =>
               /\ coder.totalFrequency <= ansEnc.state
               /\ ansEnc.state \div 256 < coder.totalFrequency
        /\ (ansEnc.pc \in {"loop", "done"}
                /\ ansEnc.readPosition = ansInputBitArray.bitLength - 1) =>
               /\ ansEnc.state = coder.totalFrequency
               /\ outputBytes = <<>>
        /\ ansEnc.state <= 2147483647
        /\ ansEnc.pc # "flushForever"

AnsEncoderStateBoundsWitness ==
    /\ ValidConfiguration(coder)
    /\ coder.totalFrequencySpaceBits = 23
    /\ ansEnc.pc = "done"
    /\ ansInputBitArray.bitLength = 4
    /\ Len(outputBytes) >= 2
    /\ ansEnc.state >= 1073741824

\* C6: after the two tables are generated for a valid (p, R), the encoder
\* table has totalFrequency * 256 * 2 entries and the decoder table
\* totalFrequency * 256; for every state x below totalFrequency * 256 and
\* every symbol s the lookups (index 2x + s, index x) return what the
\* computed transitions return; and every state that Encode or Decode of an
\* encoded message passes to a transition is below totalFrequency * 256.
AnsTableEquivalence ==
    ValidConfiguration(coder) =>
        /\ Len(encoderStateTransitionTable) > 0 =>
               /\ Len(encoderStateTransitionTable) = coder.totalFrequency * 256 * 2
               /\ \A x \in 0..((coder.totalFrequency * 256) - 1), s \in {0, 1} :
                      LookupEncoderStateTransitionFor(encoderStateTransitionTable, x, s)
                          = [threw |-> FALSE,
                             value |-> ComputeEncoderStateTransitionFor(coder, x, s)]
        /\ Len(decoderStateTransitionTable) > 0 =>
               /\ Len(decoderStateTransitionTable) = coder.totalFrequency * 256
               /\ \A x \in 0..((coder.totalFrequency * 256) - 1) :
                      LookupDecoderStateTransitionFor(decoderStateTransitionTable, x)
                          = [threw |-> FALSE,
                             value |-> ComputeDecoderStateTransitionFor(coder, x)]
        /\ (ansEnc.pc = "flush" /\ ansEnc.state < FlushThreshold(coder, ansEnc.symbol))
               => ansEnc.state \div 256 < coder.totalFrequency
        /\ (ansDec.pc = "loop" /\ ansDec.writePosition < ansOutputBitArray.bitLength
                /\ ansDec.source = "encoder" /\ ~MustUnflush)
               => ansDec.state \div 256 < coder.totalFrequency

AnsTableEquivalenceWitness ==
    /\ ValidConfiguration(coder)
    /\ coder.probabilityOf1 = 300000000
    /\ Len(encoderStateTransitionTable) > 0
    /\ Len(decoderStateTransitionTable) > 0
    /\ tableCall.op = "LookupEncoder"
    /\ tableCall.state = (coder.totalFrequency * 256) - 1
    /\ tableCall.symbol = 1
    /\ ~tableCall.threw

\* C8: a constructed coder has a probabilityOf1 in [0, 1] and a range bit
\* width in [2, 23]; no coder with a frequency of 0 or a total frequency
\* below 4 is used by Encode or Decode.
AnsConstructorRejects ==
    /\ coder.constructed => ValidConfiguration(coder)
    /\ (ansEnc.pc # "idle" \/ ansDec.pc # "idle") =>
           /\ coder.frequencyOf[1] >= 1
           /\ coder.frequencyOf[2] >= 1
           /\ coder.totalFrequency >= 4

\* C9: for p in [0, 1] and R in [2, 23] the constructed coder has
\* frequencyOf[0] + frequencyOf[1] = 2^R, both frequencies at least 1,
\* cumulativeFrequencyOf = {0, frequencyOf[0]}, and no transition divides by
\* a frequency of 0.
AnsFrequencyInvariant ==
    ValidConfiguration(coder) =>
        /\ coder.totalFrequency = Pow2(coder.totalFrequencySpaceBits)
        /\ coder.frequencyOf[1] + coder.frequencyOf[2] = coder.totalFrequency
        /\ coder.frequencyOf[1] >= 1
        /\ coder.frequencyOf[2] >= 1
        /\ coder.cumulativeFrequencyOf = <<0, coder.frequencyOf[1]>>
        /\ tableCall.op # "divisionByZero"
        /\ ansEnc.pc = "flush" => FlushThreshold(coder, ansEnc.symbol) > 0

AnsFrequencyInvariantWitness ==
    /\ ValidConfiguration(coder)
    /\ coder.probabilityOf1 = ProbabilityScale
    /\ coder.totalFrequencySpaceBits = 2
    /\ coder.frequencyOf = <<1, 3>>
    /\ ansEnc.pc = "done"
    /\ ansInputBitArray = BitArrayOf(<<0, 1, 0, 0>>)

\* C10: a lookup in a table that was not generated throws, whatever the
\* state and the symbol, and returns no state.
AnsLookupBeforeGenerateThrows ==
    /\ (tableCall.op = "LookupEncoder" /\ Len(encoderStateTransitionTable) = 0)
           => tableCall.threw
    /\ (tableCall.op = "LookupDecoder" /\ Len(decoderStateTransitionTable) = 0)
           => tableCall.threw

AnsLookupBeforeGenerateThrowsWitness ==
    /\ tableCall.op = "LookupEncoder"
    /\ Len(encoderStateTransitionTable) = 0
    /\ Len(decoderStateTransitionTable) > 0
    /\ tableCall.state = coder.totalFrequency
    /\ tableCall.symbol = 1
    /\ tableCall.threw

\* The states the transitions are compared on.  Up to MaxTableBits range
\* bits: every state below totalFrequency * 256 for the encoder transition
\* and every state below totalFrequency * totalFrequency * 256, which is
\* above every result of it, for the decoder transition.  For a wider
\* range: the states around the frequencies, the total frequency and the
\* last state below totalFrequency * 256, those left out whose encoder
\* transition is 2^31 or more.
EncoderTransitionStates(c, symbol) ==
    IF c.totalFrequencySpaceBits <= MaxTableBits
    THEN 0..((c.totalFrequency * 256) - 1)
    ELSE { x \in { 0, 1, c.frequencyOf[symbol + 1] - 1, c.frequencyOf[symbol + 1],
                   c.frequencyOf[symbol + 1] + 1, c.totalFrequency - 1,
                   c.totalFrequency, (c.frequencyOf[symbol + 1] * 256) - 1 } :
             x >= 0 /\ x \div c.frequencyOf[symbol + 1] < 256 }

DecoderTransitionStates(c) ==
    IF c.totalFrequencySpaceBits <= MaxTableBits
    THEN 0..((c.totalFrequency * c.totalFrequency * 256) - 1)
    ELSE { 0, 1, c.frequencyOf[1] - 1, c.frequencyOf[1], c.totalFrequency - 1,
           c.totalFrequency, c.totalFrequency + c.frequencyOf[1],
           (c.totalFrequency * 255) + c.frequencyOf[1] - 1,
           (c.totalFrequency * 255) + c.totalFrequency - 1 }

\* C20: for a coder of a valid (p, R), every state x below
\* totalFrequency * 256 and every symbol s, the decoder transition of the
\* encoder transition of (x, s) is (x, s); and for every state y the
\* encoder transition of the state and symbol that the decoder transition
\* of y returns is y.
AnsTransitionsInverse ==
    (ValidConfiguration(coder) /\ NoCodingCall /\ Len(encoderStateTransitionTable) = 0
        /\ Len(decoderStateTransitionTable) = 0) =>
        /\ \A s \in {0, 1} : \A x \in EncoderTransitionStates(coder, s) :
               ComputeDecoderStateTransitionFor(
                   coder, ComputeEncoderStateTransitionFor(coder, x, s))
                   = [state |-> x, symbol |-> s]
        /\ \A y \in DecoderTransitionStates(coder) :
               LET stateTransitionResult == ComputeDecoderStateTransitionFor(coder, y)
               IN  ComputeEncoderStateTransitionFor(coder, stateTransitionResult.state,
                                                    stateTransitionResult.symbol) = y

\* A coder of p = 0.3 and R = 2 (frequencies 3 and 1) has been constructed:
\* the state 5 with symbol 0 goes to 6, and 6 goes back to 5 with symbol 0.
AnsTransitionsInverseWitness ==
    /\ ValidConfiguration(coder)
    /\ NoCodingCall
    /\ coder.probabilityOf1 = 300000000
    /\ coder.totalFrequencySpaceBits = 2
    /\ ComputeEncoderStateTransitionFor(coder, 5, 0) = 6
    /\ ComputeDecoderStateTransitionFor(coder, 6) = [state |-> 5, symbol |-> 0]

\* C21: in Encode under a valid (p, R) the flush loop of every symbol s
\* ends (after at most three bytes) and leaves
\* frequencyOf[s] <= state < frequencyOf[s] * 256; the state it leaves is
\* below totalFrequency exactly when a byte was flushed for the symbol; and
\* a state below totalFrequency that Decode holds after a transition is
\* the state left by a flush loop that flushed.
AnsFlushDecidable ==
    ValidConfiguration(coder) =>
        /\ ansEnc.pc # "flushForever"
        /\ Len(ansEnc.flushed) <= 3
        /\ \A k \in 1..Len(ansEnc.symbolSteps) :
               LET step == ansEnc.symbolSteps[k]
               IN  /\ coder.frequencyOf[step.symbol + 1] <= step.flushedState
                   /\ step.flushedState \div 256 < coder.frequencyOf[step.symbol + 1]
                   /\ step.flushedState < coder.totalFrequency <=> Len(step.flushed) >= 1
        /\ (ansDec.pc # "idle" /\ ansDec.source = "encoder"
                /\ ansDec.writePosition >= 1 /\ ansDec.unflushed = <<>>
                /\ ansDec.state < coder.totalFrequency)
               => Len(ansEnc.symbolSteps[ansDec.writePosition].flushed) >= 1

\* Over a coder of R = 3 a symbol has been encoded after a flush and
\* another without one.
AnsFlushDecidableWitness ==
    /\ ValidConfiguration(coder)
    /\ coder.totalFrequencySpaceBits = 3
    /\ ansEnc.pc = "done"
    /\ \E k \in 1..Len(ansEnc.symbolSteps) :
           /\ Len(ansEnc.symbolSteps[k].flushed) >= 1
           /\ ansEnc.symbolSteps[k].flushedState < coder.totalFrequency
    /\ \E k \in 1..Len(ansEnc.symbolSteps) :
           /\ Len(ansEnc.symbolSteps[k].flushed) = 0
           /\ ansEnc.symbolSteps[k].flushedState >= coder.totalFrequency

\* The indices 0 .. n - 1 in increasing order
FirstIndices(n) == [i \in 1..n |-> i - 1]

\* C31: for arbitrary encoded bytes, any byte count and any initial state,
\* Decode terminates having written exactly N bits, at the positions
\* 0 .. N-1; it reads bytes only at indices below the byte count, in
\* increasing order and each at most once; and after every unflush loop
\* either state >= totalFrequency or every byte has been read.
AnsDecodeTotal ==
    ansDec.pc # "idle" =>
        /\ ansDec.pc \in {"loop", "done"}
        /\ ansDec.readPosition <= Len(encodedBytes)
        /\ ansDec.reads = FirstIndices(ansDec.readPosition)
        /\ ansDec.writePosition <= ansOutputBitArray.bitLength
        /\ ansDec.writes = FirstIndices(ansDec.writePosition)
        /\ ansDec.pc = "done" => ansDec.writePosition = ansOutputBitArray.bitLength
        /\ (ansDec.writePosition >= 1 /\ ansDec.unflushed = <<>>) =>
               \/ ansDec.decoded.state >= coder.totalFrequency
               \/ ansDec.readPosition = Len(encodedBytes)

\* Decode has returned MaxDecodedBits bits from two bytes and a state that
\* no call of Encode produced, having read both bytes and made its last
\* transition on a state below totalFrequency.
AnsDecodeTotalWitness ==
    /\ ValidConfiguration(coder)
    /\ ansDec.source = "arbitrary"
    /\ ansDec.pc = "done"
    /\ ansDec.writePosition = MaxDecodedBits
    /\ Len(encodedBytes) = 2
    /\ ansDec.readPosition = 2
    /\ ansDec.decoded.state < coder.totalFrequency

\* ------------------------------------------------------------------------
\* Properties of the multiplication by a fraction
\* ------------------------------------------------------------------------

\* C11: for a fraction f in [0, 1] (f = 1 included, where the multiplier M
\* is 2^32) the constructor does not throw and M = floor(f * 2^32); for every
\* 32-bit x the product x * M does not overflow 64 bits, Multiply(x) is
\* floor(x * M / 2^32), which fits in 32 bits, and it differs from
\* floor(x * f) by at most 1.
FractionMultiplyExact ==
    LET f == fracMul.fractionBetween0And1
        M == fracMul.scaledMultiplier
        x == mulCall.multiplicand
    IN  /\ (fracMul.pc # "none" /\ f \in 0..ProbabilityScale) =>
               /\ fracMul.pc = "constructed"
               /\ ~Less(WrapMul(Word(f, 16), WordPow2(32, 16), 16),
                        WrapMul(Resize(M, 16), Word(ProbabilityScale, 16), 16))
               /\ Less(WrapMul(Word(f, 16), WordPow2(32, 16), 16),
                       WrapMul(WrapAdd(Resize(M, 16), Word(1, 16), 16),
                               Word(ProbabilityScale, 16), 16))
               /\ (f = ProbabilityScale) => M = WordPow2(32, 8)
        /\ mulCall.op = "Multiply" =>
               LET product == WrapMul(Resize(x, 16), Resize(M, 16), 16)
                   floorOfXTimesF == WordDiv(WrapMul(Resize(x, 8), Word(f, 8), 8),
                                             ProbabilityScale)
               IN  /\ \A i \in 9..16 : product[i] = 0
                   /\ Resize(mulCall.result, 16) = ShiftRight(product, 32, 16)
                   /\ ~Less(floorOfXTimesF, mulCall.result)
                   /\ ~Less(WrapAdd(Resize(mulCall.result, 8), Word(1, 8), 8),
                            floorOfXTimesF)

FractionMultiplyExactWitness ==
    /\ fracMul.pc = "constructed"
    /\ fracMul.fractionBetween0And1 = ProbabilityScale
    /\ fracMul.scaledMultiplier = WordPow2(32, 8)
    /\ mulCall.op = "Multiply"
    /\ mulCall.multiplicand = <<255, 255, 255, 255>>
    /\ mulCall.result = <<255, 255, 255, 255>>

\* ------------------------------------------------------------------------
\* Properties of BitArray
\* ------------------------------------------------------------------------

\* Bit (i mod 8), counted from the least significant bit, of byte
\* floor(i / 8)
AddressedBit(bytes, i) == (bytes[(i \div 8) + 1] \div Pow2(i % 8)) % 2

\* C13: ReadBitAt(i) returns bit (i mod 8), least significant first, of byte
\* floor(i / 8); after the calls of WriteBitAt every bit of the buffer is its
\* initial value or-ed with the bits written at its index, so the other bits
\* are unchanged, a written 0 never clears a bit, and on a zeroed buffer
\* ReadBitAt(i) returns the b of a WriteBitAt(i, b); ByteLength() is
\* ceil(BitLength() / 8).
BitArrayWriteFrame ==
    bitArray.bitLength >= 0 =>
        /\ Len(bitArray.bytes) = Len(bitArrayInitial)
        /\ \A j \in 0..((8 * Len(bitArrayInitial)) - 1) :
               AddressedBit(bitArray.bytes, j) =
                   IF AddressedBit(bitArrayInitial, j) = 1
                      \/ \E w \in 1..Len(bitWrites) : bitWrites[w] = <<j, 1>>
                   THEN 1 ELSE 0
        /\ bitCall.op = "ReadBitAt" =>
               /\ bitCall.result = AddressedBit(bitArray.bytes, bitCall.position)
               /\ (Len(bitWrites) = 1 /\ bitWrites[1][1] = bitCall.position
                       /\ \A k \in 1..Len(bitArrayInitial) : bitArrayInitial[k] = 0)
                      => bitCall.result = bitWrites[1][2]
        /\ bitCall.op = "ByteLength" =>
               /\ 8 * bitCall.result >= bitArray.bitLength
               /\ 8 * bitCall.result < bitArray.bitLength + 8

BitArrayWriteFrameWitness ==
    /\ bitArray.bitLength = 10
    /\ bitArrayInitial = <<165, 255>>
    /\ bitWrites = <<<<9, 1>>, <<9, 0>>>>
    /\ bitCall.op = "ReadBitAt"
    /\ bitCall.position = 9
    /\ bitCall.result = 1

\* ------------------------------------------------------------------------
\* Properties of OutputBitStream
\* ------------------------------------------------------------------------

\* C14: a stream constructed with an initial bit capacity, after n calls of
\* WriteBit with the bits b_0 .. b_(n-1), has BitLength() = n and
\* ByteLength() = ceil(n / 8); bit i (bit i mod 8, least significant first,
\* of byte floor(i / 8)) is b_i for every i < n and the unused high bits of
\* the last byte are 0; a write pushes a new byte exactly when the bit length
\* before it is a multiple of 8.
StreamAppend ==
    (streamCall.op # "none" /\ ~streamCall.fromVector) =>
        /\ stream.bitLength = Len(streamWrites)
        /\ 8 * Len(stream.bytes) >= stream.bitLength
        /\ 8 * Len(stream.bytes) < stream.bitLength + 8
        /\ \A i \in 0..((8 * Len(stream.bytes)) - 1) :
               AddressedBit(stream.bytes, i) =
                   IF i < Len(streamWrites) THEN streamWrites[i + 1] ELSE 0
        /\ streamCall.op = "WriteBit" =>
               (streamCall.pushed <=> (stream.bitLength - 1) % 8 = 0)

StreamAppendWitness ==
    /\ streamCall.op = "WriteBit"
    /\ streamCall.pushed
    /\ streamWrites = <<1, 0, 1, 1, 0, 0, 1, 0, 1>>
    /\ stream.bytes = <<77, 1>>

\* C30: a stream constructed from a byte vector, empty or not, starts
\* empty: BitLength() = 0 and ByteLength() = 0, and after n calls of
\* WriteBit ByteLength() = ceil(n / 8) and the stored bits are exactly the
\* written bits, with nothing of the given vector in them.
StreamFromVectorStartsEmpty ==
    streamCall.fromVector =>
        /\ stream.bitLength = Len(streamWrites)
        /\ Len(stream.bytes) = (Len(streamWrites) + 7) \div 8
        /\ \A i \in 0..((8 * Len(stream.bytes)) - 1) :
               AddressedBit(stream.bytes, i) =
                   IF i < Len(streamWrites) THEN streamWrites[i + 1] ELSE 0

\* What the code does: the stream holds the given bytes with a bit length
\* of 0, and every written bit is OR-ed into them.
StreamFromVectorKeepsBytes ==
    streamCall.fromVector =>
        LET n == Len(streamWrites)
            given == streamCall.given
            byteLength == IF (n + 7) \div 8 > Len(given) THEN (n + 7) \div 8 ELSE Len(given)
        IN  /\ stream.bitLength = n
            /\ Len(stream.bytes) = byteLength
            /\ \A i \in 0..((8 * byteLength) - 1) :
                   AddressedBit(stream.bytes, i) =
                       IF i < n /\ streamWrites[i + 1] = 1 THEN 1
                       ELSE IF i < 8 * Len(given) THEN AddressedBit(given, i)
                       ELSE 0

\* ------------------------------------------------------------------------
\* Properties of the 32-bit fast division
\* ------------------------------------------------------------------------

\* q = floor(n / d) and, where asked, r = n mod d, for words n, d, q, r
IsQuotientAndRemainder(n, d, q, r, withRemainder) ==
    LET qd == WrapMul(Resize(q, 8), Resize(d, 8), 8)
    IN  /\ ~Less(n, qd)
        /\ Less(n, WrapAdd(qd, Resize(d, 8), 8))
        /\ withRemainder => Resize(r, 8) = WrapSub(Resize(n, 8), qd, 8)

\* C15: for every divisor d in [1, 2^32) and every numerator n in [0, 2^32),
\* Divide(n) of FastUint32Division is floor(n / d) and
\* DivideAndGetRemainder(n) is (floor(n / d), n mod d).
FastDivision32Exact ==
    (div32Call.op \in {"Divide", "DivideAndGetRemainder"} /\ div32.divisor # Word(0, 4))
        => IsQuotientAndRemainder(div32Call.numerator, div32.divisor, div32Call.quotient,
                                  div32Call.remainder,
                                  div32Call.op = "DivideAndGetRemainder")


====
